---------------------------- MODULE Spec2Model ----------------------------
(***************************************************************************)
(* Model of mpdaf.obj.coords: the spatial WCS object and the spectral      *)
(* WaveCoord object (src/lib/mpdaf/obj/coords.py), and of bounding_box     *)
(* (src/lib/mpdaf/obj/objs.py).                                            *)
(*                                                                         *)
(* Numbers.  The program computes with float64.  The model computes with   *)
(* exact rationals <<n, d>> (d > 0, lowest terms), so "equal within        *)
(* floating tolerance" in the documentation reads "equal" here.            *)
(*                                                                         *)
(* Angles.  An angle is carried as the pair <<cos, sin>> of its direction, *)
(* both rational: 0, 90, 180, -90 degrees and the 3-4-5 angle              *)
(* (cos = 3/5, sin = 4/5, about 53.13 degrees) and their sums.             *)
(* np.arctan2(y, x) is the direction of (x, y), which identifies an angle  *)
(* of (-180, 180] uniquely.                                                *)
(*                                                                         *)
(* Scope.  WCS objects are the ones WCS.__init__ builds from parameters    *)
(* (they hold a CD matrix, so the "except" fall-backs to PC/CDELT are not  *)
(* taken); WaveCoord objects are the ones WaveCoord.__init__ builds from   *)
(* parameters (CDELT and PC, no CD).  pix2sky/sky2pix are modelled for     *)
(* CTYPE = LINEAR, where wcslib applies the affine map only.               *)
(***************************************************************************)
EXTENDS Integers, Sequences, FiniteSets, TLC

\* The last call and the object it acted on, as one tuple
\*   <<op, nmut, obj, obj0, args, ret>>
\* whose name and arguments come before its result, so that two calls are
\* told apart before results of different kinds are compared.
VARIABLE call

vars == <<call>>

\* the name of the last call ("init" after construction)
op == call[1]
\* the number of in-place calls made so far
nmut == call[2]
\* the live object, a WCS or a WaveCoord
obj == call[3]
\* the object as it was before the last call
obj0 == call[4]
\* the arguments of the last call
args == call[5]
\* what the last call returned
ret == call[6]

-----------------------------------------------------------------------------
(* Bounds of the model.                                                    *)

\* in-place mutating calls (set_step, rotate, WaveCoord.rebin) per behaviour
MaxMut == 2

\* largest pixel index handed to the pixel <-> world conversions
MaxPix == 1

-----------------------------------------------------------------------------
(* Exact arithmetic standing for float64.                                  *)

Abs(i) == IF i < 0 THEN -i ELSE i

RECURSIVE GCD(_, _)
GCD(a, b) == IF b = 0 THEN a ELSE GCD(b, a % b)

\* the rational n/d in lowest terms, d # 0
Q(n, d) ==
    LET g == GCD(Abs(n), Abs(d))
        s == IF d < 0 THEN -1 ELSE 1
    IN  <<(s * n) \div g, (s * d) \div g>>

I(i) == <<i, 1>>
Zero == I(0)
One == I(1)
Half == Q(1, 2)

\* a + b over the least common denominator
Plus(a, b) ==
    LET g == GCD(a[2], b[2])
    IN  Q(a[1] * (b[2] \div g) + b[1] * (a[2] \div g), a[2] * (b[2] \div g))
Neg(a) == <<-a[1], a[2]>>
Minus(a, b) == Plus(a, Neg(b))
Times(a, b) ==
    LET g == GCD(Abs(a[1]), b[2])
        h == GCD(Abs(b[1]), a[2])
    IN  IF a[1] = 0 \/ b[1] = 0 THEN <<0, 1>>
        ELSE <<(a[1] \div g) * (b[1] \div h), (a[2] \div h) * (b[2] \div g)>>
Over(a, b) == Times(a, Q(b[2], b[1]))
Less(a, b) == a[1] * b[2] < b[1] * a[2]
LessEq(a, b) == a[1] * b[2] <= b[1] * a[2]
QAbs(a) == <<Abs(a[1]), a[2]>>

\* floor of a rational
Floor(a) == a[1] \div a[2]

\* np.ceil
Ceil(a) == -((-a[1]) \div a[2])

\* ndarray.astype(int) and int(): truncation towards zero
Trunc(a) == IF a[1] >= 0 THEN a[1] \div a[2] ELSE -((-a[1]) \div a[2])

\* integer square root of a perfect square
ISqrt(n) == CHOOSE k \in 0..n : k * k = n

\* np.sqrt of a rational that is the square of a rational
Sqrt(a) == Q(ISqrt(a[1]), ISqrt(a[2]))

-----------------------------------------------------------------------------
(* Optional values: None is <<>>, a present value v is <<v>>.              *)

None == <<>>
Some(v) == <<v>>
IsNone(o) == o = <<>>
Val(o) == o[1]

-----------------------------------------------------------------------------
(* Angles as directions <<cos, sin>>.                                      *)

Deg0 == <<One, Zero>>
Deg90 == <<Zero, One>>
Deg180 == <<Neg(One), Zero>>
DegM90 == <<Zero, Neg(One)>>
Deg345 == <<Q(3, 5), Q(4, 5)>>

Cos(t) == t[1]
Sin(t) == t[2]
NegAngle(t) == <<t[1], Neg(t[2])>>

\* np.arctan2(y, x), for (x, y) # (0, 0) of rational length
ArcTan2(y, x) ==
    LET r == Sqrt(Plus(Times(x, x), Times(y, y)))
    IN  <<Over(x, r), Over(y, r)>>

-----------------------------------------------------------------------------
(* 2x2 matrices <<<<m11, m12>>, <<m21, m22>>>> of rationals.               *)

\* np.dot(a, b)
Dot(a, b) ==
    << <<Plus(Times(a[1][1], b[1][1]), Times(a[1][2], b[2][1])),
         Plus(Times(a[1][1], b[1][2]), Times(a[1][2], b[2][2]))>>,
       <<Plus(Times(a[2][1], b[1][1]), Times(a[2][2], b[2][1])),
         Plus(Times(a[2][1], b[1][2]), Times(a[2][2], b[2][2]))>> >>

Det(m) == Minus(Times(m[1][1], m[2][2]), Times(m[1][2], m[2][1]))


-----------------------------------------------------------------------------
(* Units: a unit is its scale within its family (angstrom 1, nm 10;        *)
(* pixel 1; arcsec 1, deg 3600), which is all Quantity.to() needs.         *)

Angstrom == [name |-> "Angstrom", scale |-> I(1)]
Nm == [name |-> "nm", scale |-> I(10)]
Pixel == [name |-> "pixel", scale |-> I(1)]
UDeg == [name |-> "deg", scale |-> I(3600)]
Arcsec == [name |-> "arcsec", scale |-> I(1)]
\* 2 * u.pix, the unit of test_get
Pixel2 == [name |-> "2 pixel", scale |-> I(2)]

\* (v * from).to(to).value
To(v, from, to) == Over(Times(v, from.scale), to.scale)

-----------------------------------------------------------------------------
(* WCS.  A WCS is [cd, crpix, crval, deg, naxis1, naxis2]: cd, crpix and   *)
(* crval are wcs.wcs.cd, wcs.wcs.crpix, wcs.wcs.crval in FITS (x, y)       *)
(* order; deg is TRUE for CTYPE RA---TAN/DEC--TAN with CUNIT deg and FALSE *)
(* for CTYPE LINEAR with CUNIT pixel.  Pairs handed to and returned by the *)
(* methods are in python (y, x) order: p[1] is y, p[2] is x.               *)

\* WCS.__init__(crpix, crval, cdelt, deg, rot, shape) with hdr = cd = None;
\* crpix, crval and shape are optional, an omitted crval is the default
\* (1.0, 1.0) of the signature
WCS_init(crpix, crval, cdelt, deg, rot, shape) ==
    [ class |-> "WCS",
      crpix |-> IF ~IsNone(crpix) THEN <<Val(crpix)[2], Val(crpix)[1]>>
                ELSE IF IsNone(shape) THEN <<One, One>>
                ELSE <<Over(I(Val(shape)[2] + 1), I(2)),
                       Over(I(Val(shape)[1] + 1), I(2))>>,
      crval |-> LET c == IF IsNone(crval) THEN <<One, One>> ELSE Val(crval)
                IN  <<c[2], c[1]>>,
      deg   |-> deg,
      cd    |-> << <<Times(cdelt[2], Cos(rot)), Neg(Times(cdelt[1], Sin(rot)))>>,
                   <<Times(cdelt[2], Sin(rot)), Times(cdelt[1], Cos(rot))>> >>,
      naxis1 |-> IF IsNone(shape) THEN 0 ELSE Val(shape)[2],
      naxis2 |-> IF IsNone(shape) THEN 0 ELSE Val(shape)[1] ]

\* WCS.copy
WCS_copy(self) == self

\* WCS.unit
WCS_unit(self) == IF self.deg THEN UDeg ELSE Pixel

\* WCS.is_deg
is_deg(self) == self.deg

\* wcs.wcs_pix2world(x, y, 0) for CTYPE = LINEAR: <<ra, dec>>
wcs_pix2world(self, px, py) ==
    LET dx == Minus(Plus(px, One), self.crpix[1])
        dy == Minus(Plus(py, One), self.crpix[2])
    IN  << Plus(self.crval[1],
                Plus(Times(self.cd[1][1], dx), Times(self.cd[1][2], dy))),
           Plus(self.crval[2],
                Plus(Times(self.cd[2][1], dx), Times(self.cd[2][2], dy))) >>

\* wcs_world2pix that returns FITS (one-based) pixel positions
wcs_world2pix_fits(self, ra, dec) ==
    LET d  == Det(self.cd)
        u  == Minus(ra, self.crval[1])
        v  == Minus(dec, self.crval[2])
        ix == Over(Minus(Times(self.cd[2][2], u), Times(self.cd[1][2], v)), d)
        iy == Over(Minus(Times(self.cd[1][1], v), Times(self.cd[2][1], u)), d)
    IN  << Plus(ix, self.crpix[1]), Plus(iy, self.crpix[2]) >>

\* wcs.wcs_world2pix(ra, dec, 0) for CTYPE = LINEAR: <<ax, ay>>
wcs_world2pix(self, ra, dec) ==
    LET d  == Det(self.cd)
        u  == Minus(ra, self.crval[1])
        v  == Minus(dec, self.crval[2])
        ix == Over(Minus(Times(self.cd[2][2], u), Times(self.cd[1][2], v)), d)
        iy == Over(Minus(Times(self.cd[1][1], v), Times(self.cd[2][1], u)), d)
    IN  << Minus(Plus(ix, self.crpix[1]), One),
           Minus(Plus(iy, self.crpix[2]), One) >>

\* WCS.pix2sky(x, unit) for one pair x = (y, x): the row (dec, ra)
pix2sky1(self, x, unit) ==
    LET rd  == wcs_pix2world(self, x[2], x[1])
        ra  == IF IsNone(unit) THEN rd[1] ELSE To(rd[1], WCS_unit(self), Val(unit))
        dec == IF IsNone(unit) THEN rd[2] ELSE To(rd[2], WCS_unit(self), Val(unit))
    IN  <<dec, ra>>

\* WCS.pix2sky(x, unit) for an (n, 2) list of pairs; a single pair is the
\* list of that pair (x.reshape(1, 2))
pix2sky(self, x, unit) == [k \in 1..Len(x) |-> pix2sky1(self, x[k], unit)]

\* min and max of integers
Min(a, b) == IF a < b THEN a ELSE b
Max(a, b) == IF a > b THEN a ELSE b

\* WCS.sky2pix(x, nearest, unit) for one pair x = (dec, ra): the row (y, x)
sky2pix1(self, x, nearest, unit) ==
    LET ra  == IF IsNone(unit) THEN x[2] ELSE To(x[2], Val(unit), WCS_unit(self))
        dec == IF IsNone(unit) THEN x[1] ELSE To(x[1], Val(unit), WCS_unit(self))
        a   == wcs_world2pix(self, ra, dec)
        res == <<a[2], a[1]>>
        ry  == Trunc(Plus(res[1], Half))
        rx  == Trunc(Plus(res[2], Half))
    IN  IF ~nearest THEN res
        ELSE IF self.naxis1 # 0 /\ self.naxis2 # 0
             THEN <<I(Max(Min(ry, self.naxis2 - 1), 0)),
                    I(Max(Min(rx, self.naxis1 - 1), 0))>>
             ELSE <<I(ry), I(rx)>>

\* WCS.sky2pix(x, nearest, unit) for an (n, 2) list of pairs
sky2pix(self, x, nearest, unit) ==
    [k \in 1..Len(x) |-> sky2pix1(self, x[k], nearest, unit)]

\* WCS.get_step(unit): [dy, dx], the norms of the rows of CD, reversed
WCS_get_step(self, unit) ==
    LET r1 == Sqrt(Plus(Times(self.cd[1][1], self.cd[1][1]),
                        Times(self.cd[1][2], self.cd[1][2])))
        r2 == Sqrt(Plus(Times(self.cd[2][1], self.cd[2][1]),
                        Times(self.cd[2][2], self.cd[2][2])))
        dy == r2
        dx == r1
    IN  IF IsNone(unit) THEN <<dy, dx>>
        ELSE <<To(dy, WCS_unit(self), Val(unit)), To(dx, WCS_unit(self), Val(unit))>>

\* WCS.get_start(unit)
WCS_get_start(self, unit) == pix2sky(self, << <<Zero, Zero>> >>, unit)[1]

\* WCS.get_end(unit)
WCS_get_end(self, unit) ==
    pix2sky(self, << <<I(self.naxis2 - 1), I(self.naxis1 - 1)>> >>, unit)[1]

\* WCS.get_rot(): the angle of the second row of CD
get_rot(self) == ArcTan2(self.cd[2][1], self.cd[2][2])

\* np.allclose(a, b, atol=atol, rtol=0) of two numbers: |a - b| <= atol
AllClose(a, b, atol) == LessEq(QAbs(Minus(a, b)), atol)

\* WCS.isEqual(other), other a WCS of the same unit: the extents, the
\* position of pixel (0,0), the steps and the rotation agree to 1E-3 of the
\* unit of self; two angles of the model are closer than 1E-3 degrees only
\* when they are the same angle
WCS_isEqual(self, other) ==
    LET cdelt1 == WCS_get_step(self, None)
        cdelt2 == WCS_get_step(other, Some(WCS_unit(self)))
        x1     == pix2sky(self, << <<Zero, Zero>> >>, None)[1]
        x2     == pix2sky(other, << <<Zero, Zero>> >>, Some(WCS_unit(self)))[1]
    IN  /\ self.naxis1 = other.naxis1
        /\ self.naxis2 = other.naxis2
        /\ AllClose(x1[1], x2[1], Q(1, 1000)) /\ AllClose(x1[2], x2[2], Q(1, 1000))
        /\ AllClose(cdelt1[1], cdelt2[1], Q(1, 1000))
        /\ AllClose(cdelt1[2], cdelt2[2], Q(1, 1000))
        /\ get_rot(self) = get_rot(other)

\* WCS.set_crpix1, set_crpix2, set_crval1, set_crval2
set_crpix1(self, x) == [self EXCEPT !.crpix[1] = x]
set_crpix2(self, y) == [self EXCEPT !.crpix[2] = y]
set_crval1(self, x, unit) ==
    [self EXCEPT !.crval[1] = IF IsNone(unit) THEN x
                              ELSE To(x, Val(unit), WCS_unit(self))]
set_crval2(self, x, unit) ==
    [self EXCEPT !.crval[2] = IF IsNone(unit) THEN x
                              ELSE To(x, Val(unit), WCS_unit(self))]

\* a rotate whose matrix has lost the minus sign of its first row
rotate_nosign(self, theta) ==
    LET mrot == << <<Cos(theta), Sin(theta)>>, <<Sin(theta), Cos(theta)>> >>
    IN  [self EXCEPT !.cd = Dot(self.cd, mrot)]

\* WCS.rotate(theta): CD := CD . [[cos, -sin], [sin, cos]]
rotate(self, theta) ==
    LET mrot == << <<Cos(theta), Neg(Sin(theta))>>, <<Sin(theta), Cos(theta)>> >>
    IN  [self EXCEPT !.cd = Dot(self.cd, mrot)]

\* np.abs(theta) > 1E-3 (degrees): every non-zero angle of the model is
\* further than 1E-3 degrees from 0
NotSmall(theta) == theta # Deg0

\* a set_step that stores the new steps on the diagonal of CD and does not
\* rotate the matrix back to the angle it had
WCS_set_step_norot(self, step, unit) ==
    LET st == IF IsNone(unit) THEN step
              ELSE <<To(step[1], Val(unit), WCS_unit(self)),
                     To(step[2], Val(unit), WCS_unit(self))>>
    IN  IF is_deg(self)
        THEN [self EXCEPT !.cd = << <<Neg(st[2]), Zero>>, <<Zero, st[1]>> >>]
        ELSE [self EXCEPT !.cd = << <<st[2], Zero>>, <<Zero, st[1]>> >>]

\* WCS.set_step(step, unit)
WCS_set_step(self, step, unit) ==
    LET st    == IF IsNone(unit) THEN step
                 ELSE <<To(step[1], Val(unit), WCS_unit(self)),
                        To(step[2], Val(unit), WCS_unit(self))>>
        theta == get_rot(self)
        s1    == IF NotSmall(theta) THEN rotate(self, NegAngle(theta)) ELSE self
        s2    == IF is_deg(s1)
                 THEN [s1 EXCEPT !.cd = << <<Neg(st[2]), Zero>>, <<Zero, st[1]>> >>]
                 ELSE [s1 EXCEPT !.cd = << <<st[2], Zero>>, <<Zero, st[1]>> >>]
    IN  IF NotSmall(theta) THEN rotate(s2, theta) ELSE s2

\* WCS.set_step(step) with step a single number and not a pair: [err, val],
\* val the receiver after the call.  step[1] of line 1058 or 1060 raises
\* TypeError, after line 1056 has rotated the matrix by -theta
WCS_set_step_number(self, step) ==
    LET theta == get_rot(self)
    IN  [err |-> "TypeError",
         val |-> IF NotSmall(theta) THEN rotate(self, NegAngle(theta)) ELSE self]

\* WCS.rotate(theta) with theta None or an angle: [err, val], val the
\* receiver after the call.  np.deg2rad(None) of line 1074 raises TypeError
\* before the matrix is read
WCS_rotate(self, theta) ==
    IF IsNone(theta) THEN [err |-> "TypeError", val |-> self]
    ELSE [err |-> "", val |-> rotate(self, Val(theta))]

-----------------------------------------------------------------------------
(* WCS.__getitem__.  An index item is a python slice                       *)
(* [isslice |-> TRUE, start, stop, step] with optional integers, or a      *)
(* single integer [isslice |-> FALSE, index].  A call returns              *)
(* [err, val]: err is "" and val the result, or err names the exception.   *)

Slice(start, stop, step) ==
    [isslice |-> TRUE, start |-> start, stop |-> stop, step |-> step, index |-> 0]
Index(i) ==
    [isslice |-> FALSE, start |-> None, stop |-> None, step |-> None, index |-> i]

Ok(v) == [err |-> "", val |-> v]
Raise(e) == [err |-> e, val |-> None]

\* a start bound of the X axis that ignores the start of the slice
XMin_zero(self, it) == 0

\* the start bound of the X axis (lines 610-617)
XMin(self, it) ==
    IF IsNone(it.start) THEN 0
    ELSE LET a == IF Val(it.start) < 0 THEN self.naxis1 + Val(it.start)
                  ELSE Val(it.start)
         IN  IF a > self.naxis1 THEN self.naxis1 ELSE a

\* the stop bound of the X axis (lines 622-629)
XMax(self, it) ==
    IF IsNone(it.stop) THEN self.naxis1
    ELSE LET a == IF Val(it.stop) < 0 THEN self.naxis1 + Val(it.stop)
                  ELSE Val(it.stop)
         IN  IF a > self.naxis1 THEN self.naxis1 ELSE a

\* the start bound of the Y axis (lines 653-660)
YMin(self, it) ==
    IF IsNone(it.start) THEN 0
    ELSE LET a == IF Val(it.start) < 0 THEN self.naxis2 + Val(it.start)
                  ELSE Val(it.start)
         IN  IF a > self.naxis2 THEN self.naxis2 ELSE a

\* the stop bound of the Y axis (lines 665-672): the comparison with naxis2
\* is nested in the branch of a negative stop
YMax(self, it) ==
    IF IsNone(it.stop) THEN self.naxis2
    ELSE IF Val(it.stop) < 0
         THEN LET a == self.naxis2 + Val(it.stop)
              IN  IF a > self.naxis2 THEN self.naxis2 ELSE a
         ELSE Val(it.stop)

\* the stride test of the X branch (line 634)
XStrideBad(item) ==
    item[2].isslice /\ ~IsNone(item[2].step) /\ Val(item[2].step) # 1

\* the stride test of the Y branch (line 678): it reads item[1].step, the X
\* item, which has no attribute step when it is an integer
YStrideErr(item) ==
    IF ~item[1].isslice THEN ""
    ELSE IF ~item[2].isslice THEN "AttributeError"
    ELSE IF ~IsNone(item[2].step) /\ Val(item[2].step) # 1 THEN "ValueError"
    ELSE ""

\* WCS.__getitem__(item), item = (item[0], item[1]) = (Y item, X item)
WCS_getitem(self, item) ==
    LET imin == IF item[2].isslice THEN XMin(self, item[2]) ELSE item[2].index
        imax == IF item[2].isslice THEN XMax(self, item[2]) ELSE item[2].index + 1
        jmin == IF item[1].isslice THEN YMin(self, item[1]) ELSE item[1].index
        jmax == IF item[1].isslice THEN YMax(self, item[1]) ELSE item[1].index + 1
        res  == WCS_copy(self)
    IN  IF XStrideBad(item) THEN Raise("ValueError")
        ELSE IF YStrideErr(item) # "" THEN Raise(YStrideErr(item))
        ELSE Ok([res EXCEPT !.crpix = <<Minus(self.crpix[1], I(imin)),
                                         Minus(self.crpix[2], I(jmin))>>,
                            !.naxis1 = imax - imin,
                            !.naxis2 = jmax - jmin])

-----------------------------------------------------------------------------
(* WCS.resample and WCS.rebin.                                             *)

\* WCS.resample(step, start, unit): step = (ddec, dra), start optional
WCS_resample(self, step, start, unit) ==
    LET st    == IF IsNone(unit) THEN step
                 ELSE <<To(step[1], Val(unit), WCS_unit(self)),
                        To(step[2], Val(unit), WCS_unit(self))>>
        cdelt == WCS_get_step(self, None)
        pixsky == pix2sky(self, << <<Zero, Zero>> >>, None)
        sta   == IF IsNone(start)
                 THEN <<Plus(Minus(pixsky[1][1], Times(Half, cdelt[1])),
                             Times(Half, st[1])),
                        Plus(Minus(pixsky[1][2], Times(Half, cdelt[2])),
                             Times(Half, st[2]))>>
                 ELSE IF IsNone(unit) THEN Val(start)
                 ELSE <<To(Val(start)[1], Val(unit), WCS_unit(self)),
                        To(Val(start)[2], Val(unit), WCS_unit(self))>>
        old_start == WCS_get_start(self, None)
        r1 == set_crpix2(set_crpix1(WCS_copy(self), One), One)
        r2 == set_crval2(set_crval1(r1, sta[2], None), sta[1], None)
        r3 == WCS_set_step(r2, st, None)
    IN  [r3 EXCEPT
           !.naxis1 = Ceil(Over(Plus(Minus(Times(I(self.naxis1), cdelt[2]), sta[2]),
                                     old_start[2]), st[2])),
           !.naxis2 = Ceil(Over(Plus(Minus(Times(I(self.naxis2), cdelt[1]), sta[1]),
                                     old_start[1]), st[1]))]

\* the list the caller passed as step to WCS.set_step(step, unit), after
\* the call: lines 1051-1052 store the converted values in it
WCS_set_step_arg(self, step, unit) ==
    IF IsNone(unit) THEN step
    ELSE <<To(step[1], Val(unit), WCS_unit(self)),
           To(step[2], Val(unit), WCS_unit(self))>>

\* the lists the caller passed as step and start to
\* WCS.resample(step, start, unit), after the call: lines 1110-1114 store
\* the converted values in them; the call of set_step of line 1130 passes
\* unit=None and stores nothing
WCS_resample_args(self, step, start, unit) ==
    [step  |-> WCS_set_step_arg(self, step, unit),
     start |-> IF IsNone(unit) \/ IsNone(start) THEN start
               ELSE Some(<<To(Val(start)[1], Val(unit), WCS_unit(self)),
                           To(Val(start)[2], Val(unit), WCS_unit(self))>>)]

\* WCS.rebin(factor), factor = (fy, fx): rows of CD scaled, crpix recentred,
\* extents divided (python 2 integer division)
WCS_rebin(self, factor) ==
    LET res0 == WCS_copy(self)
        cd   == << <<Times(res0.cd[1][1], I(factor[2])), Times(res0.cd[1][2], I(factor[2]))>>,
                   <<Times(res0.cd[2][1], I(factor[1])), Times(res0.cd[2][2], I(factor[1]))>> >>
        res1 == [res0 EXCEPT !.cd = cd]
        old_cdelt == WCS_get_step(self, None)
        cdelt == WCS_get_step(res1, None)
        c1 == Over(Plus(Minus(Times(res1.crpix[1], old_cdelt[2]),
                              Over(old_cdelt[2], I(2))),
                        Over(cdelt[2], I(2))), cdelt[2])
        c2 == Over(Plus(Minus(Times(res1.crpix[2], old_cdelt[1]),
                              Over(old_cdelt[1], I(2))),
                        Over(cdelt[1], I(2))), cdelt[1])
    IN  [res1 EXCEPT !.crpix = <<c1, c2>>,
                     !.naxis1 = res1.naxis1 \div factor[2],
                     !.naxis2 = res1.naxis2 \div factor[1]]

-----------------------------------------------------------------------------
(* WaveCoord.  A WaveCoord is [crpix, crval, cdelt, pc, unit, shape]:      *)
(* wcs.wcs.crpix[0], crval[0], cdelt[0], pc[0][0] of the one-axis wcs      *)
(* object, the unit, and the optional shape.                               *)

\* WaveCoord.__init__(crpix, cdelt, crval, cunit, shape) with hdr = None
Wave_init(crpix, cdelt, crval, cunit, shape) ==
    [class |-> "WaveCoord",
     crpix |-> crpix, crval |-> crval, cdelt |-> cdelt, pc |-> One,
     unit |-> cunit, shape |-> shape]

\* WaveCoord.copy
Wave_copy(self) == self

\* WaveCoord.get_step(unit): cdelt * pc, the object holding no CD
Wave_get_step(self, unit) ==
    LET step == Times(self.cdelt, self.pc)
    IN  IF IsNone(unit) THEN step ELSE To(step, self.unit, Val(unit))

\* WaveCoord.coord(pixel, unit) for one pixel
coord1(self, pixel, unit) ==
    LET res == Plus(self.crval,
                    Times(Times(self.cdelt, self.pc),
                          Minus(Plus(pixel, One), self.crpix)))
    IN  IF IsNone(unit) THEN res ELSE To(res, self.unit, Val(unit))

\* np.arange(n, dtype=float)
Arange(n) == [k \in 1..n |-> I(k - 1)]

\* a number or a sequence of numbers as an argument
Num(x) == [seq |-> FALSE, v |-> x, vs |-> <<>>]
NumSeq(q) == [seq |-> TRUE, v |-> Zero, vs |-> q]

\* WaveCoord.coord(pixel, unit): pixel is None, Some(Num(p)) or
\* Some(NumSeq(<<p1, ...>>))
coord(self, pixel, unit) ==
    IF IsNone(pixel) /\ IsNone(self.shape) THEN Raise("IOError")
    ELSE IF IsNone(pixel)
         THEN Ok([k \in 1..Val(self.shape) |->
                    coord1(self, Arange(Val(self.shape))[k], unit)])
    ELSE IF Val(pixel).seq
         THEN Ok([k \in 1..Len(Val(pixel).vs) |-> coord1(self, Val(pixel).vs[k], unit)])
    ELSE Ok(coord1(self, Val(pixel).v, unit))

\* pixel that forgets to convert the wavelength from the unit of the call
\* into the unit of the object
pixel1_nounit(self, lbda, nearest, unit) ==
    LET pix == Minus(Plus(Over(Minus(lbda, self.crval), Times(self.cdelt, self.pc)),
                          self.crpix), One)
        k   == Max(Trunc(Plus(pix, Half)), 0)
    IN  IF ~nearest THEN pix
        ELSE IF ~IsNone(self.shape) THEN I(Min(k, Val(self.shape) - 1))
        ELSE I(k)

\* a pixel that rounds and clamps at 0 and forgets the upper end of the
\* shape
pixel1_noclamp(self, lbda, nearest, unit) ==
    LET l   == IF IsNone(unit) THEN lbda ELSE To(lbda, Val(unit), self.unit)
        pix == Minus(Plus(Over(Minus(l, self.crval), Times(self.cdelt, self.pc)),
                          self.crpix), One)
        k   == Max(Trunc(Plus(pix, Half)), 0)
    IN  IF ~nearest THEN pix ELSE I(k)

\* WaveCoord.pixel(lbda, nearest, unit) for one wavelength
pixel1(self, lbda, nearest, unit) ==
    LET l   == IF IsNone(unit) THEN lbda ELSE To(lbda, Val(unit), self.unit)
        pix == Minus(Plus(Over(Minus(l, self.crval), Times(self.cdelt, self.pc)),
                          self.crpix), One)
        k   == Max(Trunc(Plus(pix, Half)), 0)
    IN  IF ~nearest THEN pix
        ELSE IF ~IsNone(self.shape) THEN I(Min(k, Val(self.shape) - 1))
        ELSE I(k)

\* WaveCoord.pixel(lbda, nearest, unit): lbda is Num(l) or NumSeq(<<l1, ...>>)
pixel(self, lbda, nearest, unit) ==
    IF lbda.seq
    THEN [k \in 1..Len(lbda.vs) |-> pixel1(self, lbda.vs[k], nearest, unit)]
    ELSE pixel1(self, lbda.v, nearest, unit)

\* WaveCoord.get_start(unit)
Wave_get_start(self, unit) == coord1(self, Zero, unit)

\* a resample whose length is rounded down: the last partial pixel is lost
Wave_resample_floor(self, step, start, unit) ==
    LET st    == IF IsNone(unit) THEN step ELSE To(step, Val(unit), self.unit)
        cdelt == Wave_get_step(self, None)
        sta   == IF IsNone(start)
                 THEN Plus(Minus(coord1(self, Zero, None), Times(Half, cdelt)),
                           Times(Half, st))
                 ELSE IF IsNone(unit) THEN Val(start)
                 ELSE To(Val(start), Val(unit), self.unit)
        old_start == Wave_get_start(self, None)
        res   == [Wave_copy(self) EXCEPT !.crpix = One, !.crval = sta,
                                         !.cdelt = One, !.pc = st]
    IN  IF IsNone(self.shape) THEN Raise("TypeError")
        ELSE Ok([res EXCEPT !.shape =
                   Some(Floor(Over(Plus(Minus(Times(I(Val(self.shape)), cdelt), sta),
                                        old_start), st)))])

\* WaveCoord.resample(step, start, unit)
Wave_resample(self, step, start, unit) ==
    LET st    == IF IsNone(unit) THEN step ELSE To(step, Val(unit), self.unit)
        cdelt == Wave_get_step(self, None)
        sta   == IF IsNone(start)
                 THEN Plus(Minus(coord1(self, Zero, None), Times(Half, cdelt)),
                           Times(Half, st))
                 ELSE IF IsNone(unit) THEN Val(start)
                 ELSE To(Val(start), Val(unit), self.unit)
        old_start == Wave_get_start(self, None)
        res   == [Wave_copy(self) EXCEPT !.crpix = One, !.crval = sta,
                                         !.cdelt = One, !.pc = st]
    IN  IF IsNone(self.shape) THEN Raise("TypeError")
        ELSE Ok([res EXCEPT !.shape =
                   Some(Ceil(Over(Plus(Minus(Times(I(Val(self.shape)), cdelt), sta),
                                       old_start), st)))])

\* a rebin that multiplies the step and divides the shape and leaves the
\* reference pixel where it was
Wave_rebin_edge(self, factor) ==
    LET s1 == [self EXCEPT !.cdelt = Times(self.cdelt, I(factor))]
    IN  IF IsNone(self.shape) THEN [err |-> "TypeError", val |-> s1]
        ELSE Ok([s1 EXCEPT !.shape = Some(Val(self.shape) \div factor)])

\* WaveCoord.rebin(factor), in place: [err, val], val the receiver after
\* the call; with no shape the division of the last but one line raises
\* after cdelt and crpix were stored
Wave_rebin(self, factor) ==
    LET old_cdelt == Wave_get_step(self, None)
        s1    == [self EXCEPT !.cdelt = Times(self.cdelt, I(factor))]
        cdelt == Wave_get_step(s1, None)
        crpix == Over(Plus(Minus(Times(s1.crpix, old_cdelt), Over(old_cdelt, I(2))),
                           Over(cdelt, I(2))), cdelt)
        s2    == [s1 EXCEPT !.crpix = crpix]
    IN  IF IsNone(self.shape) THEN [err |-> "TypeError", val |-> s2]
        ELSE Ok([s2 EXCEPT !.shape = Some(Val(self.shape) \div factor)])

\* WaveCoord.get_end(unit)
Wave_get_end(self, unit) ==
    IF IsNone(self.shape) THEN Raise("IOError")
    ELSE Ok(coord1(self, I(Val(self.shape) - 1), unit))

\* WaveCoord.get_range(unit)
Wave_get_range(self, unit) ==
    IF IsNone(self.shape) THEN Raise("IOError")
    ELSE Ok(<<coord1(self, Zero, unit), coord1(self, I(Val(self.shape) - 1), unit)>>)

\* the length of np.arange(start, stop, step), step # 0
ArangeLen(start, stop, step) ==
    IF step > 0 THEN Max(0, Ceil(Q(stop - start, step)))
    ELSE Max(0, Ceil(Q(start - stop, -step)))

\* the slice branch of __getitem__ with the selected pixel taken as the
\* centre of the new WaveCoord: crval is the first wavelength laid on
\* crpix 1.5
Wave_getslice_shifted(self, start, stop, step) ==
    LET dim     == ArangeLen(start, stop, step)
        newlbda == [k \in 1..dim |-> coord1(self, I(start + (k - 1) * step), None)]
    IN  IF dim < 2 THEN Raise("ValueError")
        ELSE Ok(Wave_init(Q(3, 2), Minus(newlbda[2], newlbda[1]), newlbda[1],
                          self.unit, Some(dim)))

\* the slice branch of WaveCoord.__getitem__ from np.arange(start, stop,
\* step) on
Wave_getslice(self, start, stop, step) ==
    LET dim     == ArangeLen(start, stop, step)
        newlbda == [k \in 1..dim |-> coord1(self, I(start + (k - 1) * step), None)]
    IN  IF dim < 2 THEN Raise("ValueError")
        ELSE Ok(Wave_init(One, Minus(newlbda[2], newlbda[1]), newlbda[1],
                          self.unit, Some(dim)))

\* WaveCoord.__getitem__(item), item an integer or a slice.  The integer
\* branch builds WaveCoord(crpix=1.0, cdelt=0, crval=lbda, shape=1); strict
\* says whether wcs.set() of the installed wcslib rejects the zero cdelt as
\* a singular matrix or accepts it
Wave_getitem(self, item, strict) ==
    IF ~item.isslice
    THEN IF item.index < 0 /\ IsNone(self.shape) THEN Raise("ValueError")
         ELSE LET i    == IF item.index >= 0 THEN item.index
                          ELSE Val(self.shape) + item.index
                  lbda == coord1(self, I(i), None)
              IN  IF strict THEN Raise("SingularMatrixError")
                  ELSE Ok(Wave_init(One, Zero, lbda, self.unit, Some(1)))
    ELSE IF \/ ~IsNone(item.start) /\ Val(item.start) < 0 /\ IsNone(self.shape)
            \/ IsNone(item.stop) /\ IsNone(self.shape)
            \/ ~IsNone(item.stop) /\ Val(item.stop) < 0 /\ IsNone(self.shape)
         THEN Raise("ValueError")
    ELSE LET start == IF IsNone(item.start) THEN 0
                      ELSE IF Val(item.start) >= 0 THEN Val(item.start)
                      ELSE Val(self.shape) + Val(item.start)
             stop  == IF IsNone(item.stop) THEN Val(self.shape)
                      ELSE IF Val(item.stop) >= 0 THEN Val(item.stop)
                      ELSE Val(self.shape) + Val(item.stop)
             step  == IF IsNone(item.step) THEN 1 ELSE Val(item.step)
         IN  Wave_getslice(self, start, stop, step)

\* WaveCoord.isEqual(other), other a WaveCoord: the shapes are the same and
\* the first wavelength and the step agree to 1E-2 of the unit of self
\* (the axis type is LINEAR for every object built from parameters)
Wave_isEqual(self, other) ==
    LET l1 == coord1(self, Zero, Some(self.unit))
        l2 == coord1(other, Zero, Some(self.unit))
    IN  /\ self.shape = other.shape
        /\ AllClose(l1, l2, Q(1, 100))
        /\ AllClose(Wave_get_step(self, None), Wave_get_step(other, Some(self.unit)),
                    Q(1, 100))

\* WaveCoord.set_crpix(x), set_crval(x, unit), set_step(x, unit): a
\* WaveCoord built from parameters has no CD matrix
Wave_set_crpix(self, x) == [self EXCEPT !.crpix = x]
Wave_set_crval(self, x, unit) ==
    [self EXCEPT !.crval = IF IsNone(unit) THEN x ELSE To(x, Val(unit), self.unit)]
Wave_set_step(self, x, unit) ==
    LET step == IF IsNone(unit) THEN x ELSE To(x, Val(unit), self.unit)
    IN  [self EXCEPT !.cdelt = Over(step, self.pc)]

-----------------------------------------------------------------------------
(* Instances and the wcs objects they refer to.  An instance is            *)
(* [wcs, own]: wcs is the place in the heap of the astropy object behind   *)
(* self.wcs, own the attributes kept on the instance itself (naxis1 and    *)
(* naxis2 of a WCS, shape of a WaveCoord).  Two instances with the same    *)
(* wcs share every change made through either.                             *)

\* the attributes an object keeps on the instance
Own(v) == IF v.class = "WCS" THEN <<v.naxis1, v.naxis2>> ELSE <<v.shape>>

\* the object an instance stands for
View(heap, o) ==
    LET c == heap[o.wcs]
    IN  IF c.class = "WCS" THEN [c EXCEPT !.naxis1 = o.own[1], !.naxis2 = o.own[2]]
        ELSE [c EXCEPT !.shape = o.own[1]]

\* a copy that takes self.wcs as it is: out.wcs = self.wcs
Heap_copy_shared(heap, o) == [heap |-> heap, inst |-> o]

\* WCS.copy and WaveCoord.copy: out.wcs = self.wcs.deepcopy(), the own
\* attributes copied
Heap_copy(heap, o) ==
    [heap |-> Append(heap, heap[o.wcs]),
     inst |-> [wcs |-> Len(heap) + 1, own |-> o.own]]

\* the assignments that leave the instance hi.inst standing for v
Heap_put(hi, v) ==
    [heap |-> [hi.heap EXCEPT ![hi.inst.wcs] = v],
     inst |-> [hi.inst EXCEPT !.own = Own(v)]]

\* WaveCoord(...): a new instance with a wcs of its own
Heap_new(heap, v) ==
    [heap |-> Append(heap, v), inst |-> [wcs |-> Len(heap) + 1, own |-> Own(v)]]

-----------------------------------------------------------------------------
(* FITS headers.  The linear transform keys of a header are the record     *)
(* [CD, PC, CDELT]: CD and PC are 2x2 matrices of optional numbers (CDi_j,  *)
(* PCi_j), CDELT a pair of optional numbers (CDELTi); an absent key is      *)
(* None.  The transform of a WCS as wcslib holds it is the record           *)
(* [has_cd, cd, pc, cdelt].                                                 *)

Id2 == << <<One, Zero>>, <<Zero, One>> >>
NoMat == << <<None, None>>, <<None, None>> >>
SomeMat(m) == << <<Some(m[1][1]), Some(m[1][2])>>, <<Some(m[2][1]), Some(m[2][2])>> >>

\* WCS(hdr): pywcs.WCS(hdr, naxis=2) keeps the representation of the
\* header, the CD matrix if the header has CDi_j keys, PC and CDELT if not
\* (an absent PCi_j is the identity's element, an absent CDELTi is 1)
WCS_from_header(hdr) ==
    LET has_cd == \E i \in 1..2 : \E j \in 1..2 : ~IsNone(hdr.CD[i][j])
        elt(m, i, j, d) == IF IsNone(m[i][j]) THEN d ELSE Val(m[i][j])
    IN  [ class  |-> "WCS",
          has_cd |-> has_cd,
          cd     |-> IF has_cd
                     THEN [i \in 1..2 |-> [j \in 1..2 |-> elt(hdr.CD, i, j, Zero)]]
                     ELSE Id2,
          pc     |-> IF has_cd THEN Id2
                     ELSE [i \in 1..2 |-> [j \in 1..2 |-> elt(hdr.PC, i, j, Id2[i][j])]],
          cdelt  |-> IF has_cd THEN <<One, One>>
                     ELSE [i \in 1..2 |->
                             IF IsNone(hdr.CDELT[i]) THEN One ELSE Val(hdr.CDELT[i])] ]

\* the transform of a WCS built from parameters: __init__ installs a CD
\* matrix
WCS_prm(self) ==
    [ class |-> "WCS", has_cd |-> TRUE, cd |-> self.cd, pc |-> Id2,
      cdelt |-> <<One, One>> ]

\* self.wcs.to_header() of astropy: the transform is written as PCi_j and
\* CDELTi, a CD matrix as PCi_j = CDi_j with CDELTi = 1, never as CDi_j;
\* terse says whether the library leaves out the keys that have their
\* default value
wcs_to_header(self, terse) ==
    LET pc    == IF self.has_cd THEN self.cd ELSE self.pc
        cdelt == IF self.has_cd THEN <<One, One>> ELSE self.cdelt
    IN  [ CD    |-> NoMat,
          PC    |-> [i \in 1..2 |-> [j \in 1..2 |->
                       IF terse /\ pc[i][j] = Id2[i][j] THEN None
                       ELSE Some(pc[i][j])]],
          CDELT |-> [i \in 1..2 |->
                       IF terse /\ cdelt[i] = One THEN None ELSE Some(cdelt[i])] ]

\* to_header that returns the header of the library as it is
WCS_to_header_raw(self, terse) == wcs_to_header(self, terse)

\* WCS.to_header()
WCS_to_header(self, terse) ==
    LET hdr == wcs_to_header(self, terse)
        cdelt(ci) == IF IsNone(hdr.CDELT[ci]) THEN One ELSE Val(hdr.CDELT[ci])
        val(ci, cj) == IF ~IsNone(hdr.PC[ci][cj])
                       THEN Times(cdelt(ci), Val(hdr.PC[ci][cj]))
                       ELSE IF ci = cj THEN cdelt(ci) ELSE Zero
    IN  IF self.has_cd
        THEN [ CD    |-> [ci \in 1..2 |-> [cj \in 1..2 |-> Some(val(ci, cj))]],
               PC    |-> NoMat,
               CDELT |-> <<None, None>> ]
        ELSE hdr

-----------------------------------------------------------------------------
(* bounding_box of objs.py: the index ranges of the rectangle of the image  *)
(* that encloses a rotated rectangle or ellipse.  center, shape and step    *)
(* are (y, x) pairs; radii is Num(r) or NumSeq(<<rx, ry>>); posangle is a   *)
(* direction <<cos, sin>>.                                                  *)

\* np.arctan2(y, x), which is 0 at (0, 0)
BoxArcTan2(y, x) == IF x = Zero /\ y = Zero THEN Deg0 ELSE ArcTan2(y, x)

\* the half-extents with a pair of radii unpacked as (ry, rx)
BoxExtent_yx(form, radii, posangle) ==
    LET rx     == IF radii.seq THEN radii.vs[2] ELSE radii.v
        ry     == IF radii.seq THEN radii.vs[1] ELSE radii.v
        sin_pa == Sin(posangle)
        cos_pa == Cos(posangle)
        t_xmax == BoxArcTan2(Times(Neg(ry), sin_pa), Times(rx, cos_pa))
        t_ymax == BoxArcTan2(Times(ry, cos_pa), Times(rx, sin_pa))
    IN  IF form = "rectangle"
        THEN << Plus(QAbs(Times(rx, sin_pa)), QAbs(Times(ry, cos_pa))),
                Plus(QAbs(Times(rx, cos_pa)), QAbs(Times(ry, sin_pa))) >>
        ELSE << QAbs(Plus(Times(Times(rx, Cos(t_ymax)), sin_pa),
                          Times(Times(ry, Sin(t_ymax)), cos_pa))),
                QAbs(Minus(Times(Times(rx, Cos(t_xmax)), cos_pa),
                           Times(Times(ry, Sin(t_xmax)), sin_pa))) >>

\* the half-height and half-width <<ymax, xmax>> of the enclosing rectangle
BoxExtent(form, radii, posangle) ==
    LET rx     == IF radii.seq THEN radii.vs[1] ELSE radii.v
        ry     == IF radii.seq THEN radii.vs[2] ELSE radii.v
        sin_pa == Sin(posangle)
        cos_pa == Cos(posangle)
        t_xmax == BoxArcTan2(Times(Neg(ry), sin_pa), Times(rx, cos_pa))
        t_ymax == BoxArcTan2(Times(ry, cos_pa), Times(rx, sin_pa))
    IN  IF form = "rectangle"
        THEN << Plus(QAbs(Times(rx, sin_pa)), QAbs(Times(ry, cos_pa))),
                Plus(QAbs(Times(rx, cos_pa)), QAbs(Times(ry, sin_pa))) >>
        ELSE << QAbs(Plus(Times(Times(rx, Cos(t_ymax)), sin_pa),
                          Times(Times(ry, Sin(t_ymax)), cos_pa))),
                QAbs(Minus(Times(Times(rx, Cos(t_xmax)), cos_pa),
                           Times(Times(ry, Sin(t_xmax)), sin_pa))) >>

\* np.clip(a, lo, hi)
Clip(a, lo, hi) == Min(Max(a, lo), hi)

\* bounding_box with the index ranges left as computed, not clipped to the
\* array
bounding_box_noclip(form, center, radii, posangle, shape, step) ==
    LET ext == BoxExtent(form, radii, posangle)
        w   == <<Over(ext[1], step[1]), Over(ext[2], step[2])>>
    IN  IF form \notin {"rectangle", "ellipse"} THEN Raise("ValueError")
        ELSE Ok(<< <<Trunc(Minus(center[1], w[1])), Trunc(Plus(center[1], w[1])) + 1>>,
                   <<Trunc(Minus(center[2], w[2])), Trunc(Plus(center[2], w[2])) + 1>> >>)

\* bounding_box(form, center, radii, posangle, shape, step): the ranges
\* <<imin, imax + 1>> of rows and <<jmin, jmax + 1>> of columns
bounding_box(form, center, radii, posangle, shape, step) ==
    LET ext         == BoxExtent(form, radii, posangle)
        w           == <<Over(ext[1], step[1]), Over(ext[2], step[2])>>
        max_indexes == <<shape[1] - 1, shape[2] - 1>>
        imin == Clip(Trunc(Minus(center[1], w[1])), 0, max_indexes[1])
        jmin == Clip(Trunc(Minus(center[2], w[2])), 0, max_indexes[2])
        imax == Clip(Trunc(Plus(center[1], w[1])), 0, max_indexes[1])
        jmax == Clip(Trunc(Plus(center[2], w[2])), 0, max_indexes[2])
    IN  IF form \notin {"rectangle", "ellipse"} THEN Raise("ValueError")
        ELSE Ok(<< <<imin, imax + 1>>, <<jmin, jmax + 1>> >>)

-----------------------------------------------------------------------------
(* The objects the behaviours start from, and the inputs of the calls.     *)

\* a pair of integers as a pair of numbers
P(a, b) == <<I(a), I(b)>>

\* the (cdelt, rot) given to WCS.__init__: a rotation off the axes comes
\* with |dy| = |dx|, which keeps the row norms of CD rational
CdeltRots ==
    {<<c, r>> \in {P(1, 1), P(1, 2), P(1, -1)} \X {Deg0, Deg90, Deg345} :
        r = Deg345 => QAbs(c[1]) = QAbs(c[2])}

\* WCS(crval=(0,0), shape=(5,6)) of test_coords.py with every (cdelt, rot),
\* LINEAR and in degrees; other reference pixels, reference values and
\* shapes, and no shape, with some of them
\* and WCS(shape=(5,6)) and WCS() with everything else omitted
WCSArgs ==
    { [crpix |-> None, crval |-> Some(P(0, 0)), cdelt |-> cr[1], deg |-> d,
       rot |-> cr[2], shape |-> Some(<<5, 6>>)] : cr \in CdeltRots, d \in BOOLEAN }
    \cup { [crpix |-> Some(P(1, 1)), crval |-> Some(P(0, 0)), cdelt |-> cr[1],
             deg |-> FALSE, rot |-> cr[2], shape |-> Some(<<6, 5>>)] :
             cr \in { <<P(1, 1), Deg0>>, <<P(1, 2), Deg90>> } }
    \cup { [crpix |-> Some(P(1, 1)), crval |-> Some(P(1, 2)), cdelt |-> cr[1],
             deg |-> FALSE, rot |-> cr[2], shape |-> Some(<<2, 2>>)] :
             cr \in { <<P(1, 1), Deg0>>, <<P(1, 1), Deg345>> } }
    \cup { [crpix |-> None, crval |-> Some(P(0, 0)), cdelt |-> P(1, 1),
             deg |-> FALSE, rot |-> Deg0, shape |-> None] }
    \cup { [crpix |-> None, crval |-> None, cdelt |-> P(1, 1),
             deg |-> FALSE, rot |-> Deg0, shape |-> sh] :
             sh \in { None, Some(<<5, 6>>) } }

\* WCS(crpix=..., crval=..., cdelt=..., deg=..., rot=..., shape=...)
WCS_new(a) == WCS_init(a.crpix, a.crval, a.cdelt, a.deg, a.rot, a.shape)

\* the WCS objects of construction
WCSInits == { WCS_new(a) : a \in WCSArgs }

\* the WaveCoord objects: WaveCoord(crval=0, cunit=nm, shape=10) of the
\* tests and variations of it
WaveInits ==
    { Wave_init(One, One, Zero, Nm, Some(10)),
      Wave_init(One, One, Zero, Nm, None),
      Wave_init(I(2), Q(5, 4), I(4750), Angstrom, Some(6)),
      Wave_init(One, Half, I(3), Angstrom, Some(4)),
      Wave_init(One, I(-1), I(9), Nm, Some(6)) }

\* pixel pairs inside the array, and lists of them
PixIn(self) ==
    { P(j, i) : j \in 0..Min(MaxPix, self.naxis2 - 1),
                i \in 0..Min(MaxPix, self.naxis1 - 1) }

PixLists(self) ==
    { <<p>> : p \in PixIn(self) }
    \cup { l \in { <<P(0, 0), P(2, 3), P(3, 2)>> } :
             \A k \in 1..Len(l) : l[k][1][1] < self.naxis2 /\ l[k][2][1] < self.naxis1 }

\* world points far from any array
FarLists == { <<P(100, -100)>>, <<P(-50, 70), P(0, 0)>> }

\* the index items of WCS.__getitem__
YItems ==
    { Slice(None, None, None), Slice(Some(0), Some(2), None),
      Slice(Some(1), Some(2), Some(1)), Slice(Some(0), Some(9), None),
      Slice(Some(-9), None, None), Slice(Some(-2), Some(-1), None),
      Slice(Some(0), Some(4), Some(2)), Index(1) }

XItems ==
    { Slice(None, None, None), Slice(Some(1), Some(4), None),
      Slice(Some(0), Some(1), Some(1)), Slice(Some(0), Some(9), None),
      Slice(Some(-9), None, None), Slice(Some(-3), Some(-1), None),
      Slice(Some(0), Some(4), Some(2)), Index(2) }

Steps == { <<Q(1, 2), Q(5, 2)>>, P(3, 2) }
Thetas == { Deg90, Deg345, NegAngle(Deg345) }
Factors == { <<2, 2>>, <<2, 1>>, <<1, 2>>, <<3, 2>> }
Starts == { None, Some(P(0, 0)), Some(<<Q(-5, 2), I(-2)>>) }

-----------------------------------------------------------------------------
(* The state machine.  obj is the live object, a WCS or a WaveCoord; a     *)
(* call records its name in op, its arguments in args, its result in ret   *)
(* and the object as it was before the call in obj0.  At construction args *)
(* holds the arguments given to WCS.__init__.                              *)

Init ==
    \/ \E a \in WCSArgs :
         call = <<"init", 0, WCS_new(a), WCS_new(a), a, None>>
    \/ \E w \in WaveInits :
         call = <<"init", 0, w, w, None, None>>

\* A call that leaves the object as it is is followed by no other call:
\* whatever could follow it starts from the same object, and is explored
\* from the state the call was made in.
Settled == op \in {"init", "set_step", "rotate", "wave.rebin"}

IsWCS == obj.class = "WCS"
IsWave == obj.class = "WaveCoord"

\* a call that leaves the object as it is
Query(name, a, r) ==
    call' = <<name, nmut, obj, obj, a, r>>

\* an in-place call that leaves the object as o
Mutate(name, a, r, o) ==
    call' = <<name, nmut + 1, o, obj, a, r>>

\* obj.pix2sky(x)
Call_pix2sky ==
    /\ Settled /\ IsWCS /\ ~obj.deg
    /\ \E x \in PixLists(obj) :
         Query("pix2sky", [x |-> x], pix2sky(obj, x, None))

\* obj.sky2pix(x, nearest), x the world coordinates of pixels of the array
\* or far away points
Call_sky2pix ==
    /\ Settled /\ IsWCS /\ ~obj.deg
    /\ \E x \in { pix2sky(obj, l, None) : l \in PixLists(obj) } \cup FarLists,
          nearest \in BOOLEAN :
         Query("sky2pix", [x |-> x, nearest |-> nearest],
               sky2pix(obj, x, nearest, None))

\* obj[item]
Call_getitem ==
    /\ Settled /\ IsWCS
    /\ \E iy \in YItems, ix \in XItems :
         Query("getitem", [item |-> <<iy, ix>>], WCS_getitem(obj, <<iy, ix>>))

\* obj.resample(step, start)
Call_resample ==
    /\ Settled /\ IsWCS /\ ~obj.deg
    /\ \E step \in Steps, start \in Starts :
         Query("resample", [step |-> step, start |-> start],
               WCS_resample(obj, step, start, None))

\* obj.rebin(factor)
Call_rebin ==
    /\ Settled /\ IsWCS
    /\ \E factor \in Factors :
         Query("rebin", [factor |-> factor], WCS_rebin(obj, factor))

\* obj.set_step(step), in place
Call_set_step ==
    /\ Settled /\ IsWCS /\ nmut < MaxMut
    /\ \E step \in Steps \cup { WCS_get_step(obj, None) } :
         Mutate("set_step", [step |-> step], None, WCS_set_step(obj, step, None))

\* obj.rotate(theta), in place
Call_rotate ==
    /\ Settled /\ IsWCS /\ nmut < MaxMut
    /\ \E theta \in Thetas :
         Mutate("rotate", [theta |-> theta], None, rotate(obj, theta))

\* obj.set_step(x), x a number: the call raises
Call_set_step_number ==
    /\ Settled /\ IsWCS /\ nmut < MaxMut
    /\ \E step \in { Half, I(2) } :
         Mutate("set_step.number", [step |-> step],
                [err |-> WCS_set_step_number(obj, step).err, val |-> None],
                WCS_set_step_number(obj, step).val)

\* the units a WCS call may name: the unit of the WCS and one it converts from
WCSUnits(self) == IF self.deg THEN { UDeg, Arcsec } ELSE { Pixel, Pixel2 }

\* obj.set_step(step, unit), in place; ret holds the caller's list after
\* the call
Call_set_step_unit ==
    /\ Settled /\ IsWCS /\ nmut < MaxMut
    /\ \E step \in Steps, unit \in WCSUnits(obj) :
         Mutate("set_step.unit", [step |-> step, unit |-> unit],
                [step |-> WCS_set_step_arg(obj, step, Some(unit))],
                WCS_set_step(obj, step, Some(unit)))

\* obj.resample(step, start, unit); ret holds the new WCS and the caller's
\* lists after the call
Call_resample_unit ==
    /\ Settled /\ IsWCS /\ ~obj.deg
    /\ \E step \in Steps, start \in Starts, unit \in WCSUnits(obj) :
         Query("resample.unit", [step |-> step, start |-> start, unit |-> unit],
               [val   |-> WCS_resample(obj, step, start, Some(unit)),
                step  |-> WCS_resample_args(obj, step, start, Some(unit)).step,
                start |-> WCS_resample_args(obj, step, start, Some(unit)).start])

\* obj.rotate(None): the call raises
Call_rotate_none ==
    /\ Settled /\ IsWCS /\ nmut < MaxMut
    /\ Mutate("rotate.none", [theta |-> None],
              [err |-> WCS_rotate(obj, None).err, val |-> None],
              WCS_rotate(obj, None).val)

\* the units a WaveCoord call may name
WaveUnits == { None, Some(Nm), Some(Angstrom) }

\* pixel indexes of a WaveCoord: those of its shape, or 0..MaxPix without one
WavePix(self) ==
    IF IsNone(self.shape) THEN 0..MaxPix ELSE 0..(Val(self.shape) - 1)

\* sequences of pixel indexes: np.arange(n) and a short unordered one
WavePixSeqs(self) ==
    { [k \in 1..Cardinality(WavePix(self)) |-> I(k - 1)] }
    \cup { q \in { <<I(1), I(0)>> } : 1 \in WavePix(self) }

\* the pixel arguments of coord: None, a number or a sequence
CoordArgs(self) ==
    { None }
    \cup { Some(Num(I(i))) : i \in WavePix(self) }
    \cup { Some(NumSeq(q)) : q \in WavePixSeqs(self) }

\* obj.coord(pixel, unit)
Call_wave_coord ==
    /\ Settled /\ IsWave
    /\ \E px \in CoordArgs(obj), unit \in WaveUnits :
         Query("wave.coord", [pixel |-> px, unit |-> unit], coord(obj, px, unit))

\* the wavelength arguments of pixel: the coordinates of pixels of the
\* object in the unit of the call, and wavelengths far off both ends
LbdaArgs(self, unit) ==
    { Num(coord1(self, I(i), unit)) : i \in WavePix(self) }
    \cup { NumSeq([k \in 1..Len(q) |-> coord1(self, q[k], unit)]) :
             q \in WavePixSeqs(self) }
    \cup { Num(I(-100000)), Num(I(100000)) }

\* obj.pixel(lbda, nearest, unit)
Call_wave_pixel ==
    /\ Settled /\ IsWave
    /\ \E unit \in WaveUnits, nearest \in BOOLEAN :
         \E lbda \in LbdaArgs(obj, unit) :
            Query("wave.pixel", [lbda |-> lbda, nearest |-> nearest, unit |-> unit],
                  pixel(obj, lbda, nearest, unit))

WaveSteps == { Q(5, 2), I(1), I(2), I(3) }
WaveStarts == { None, Some(I(20)), Some(I(0)) }

\* obj.resample(step, start, unit)
Call_wave_resample ==
    /\ Settled /\ IsWave
    /\ \E step \in WaveSteps, start \in WaveStarts, unit \in WaveUnits :
         Query("wave.resample", [step |-> step, start |-> start, unit |-> unit],
               Wave_resample(obj, step, start, unit))

\* obj.rebin(factor), in place
Call_wave_rebin ==
    /\ Settled /\ IsWave /\ nmut < MaxMut
    /\ \E factor \in { 2, 3 } :
         Mutate("wave.rebin", [factor |-> factor],
                [err |-> Wave_rebin(obj, factor).err, val |-> None],
                Wave_rebin(obj, factor).val)

\* the WCS objects obj is compared with: itself, and the LINEAR objects of
\* construction
WCSOthers(self) == { self } \cup { w \in WCSInits : ~w.deg }

\* obj.isEqual(other)
Call_isEqual ==
    /\ Settled /\ IsWCS /\ ~obj.deg
    /\ \E other \in WCSOthers(obj) :
         Query("isEqual", [other |-> other], WCS_isEqual(obj, other))

\* the WaveCoord objects obj is compared with: itself, the objects of
\* construction, and WaveCoord(crval=0, cdelt=1, cunit=nm, shape=10) written
\* in Angstrom, exactly and with a first wavelength 0.05 Angstrom further
WaveOthers(self) ==
    { self } \cup WaveInits
    \cup { Wave_init(One, I(10), Zero, Angstrom, Some(10)),
           Wave_init(One, I(10), Q(1, 20), Angstrom, Some(10)) }

\* obj.isEqual(other)
Call_wave_isEqual ==
    /\ Settled /\ IsWave
    /\ \E other \in WaveOthers(obj) :
         Query("wave.isEqual", [other |-> other], Wave_isEqual(obj, other))

\* the items a WaveCoord is indexed with
WaveItems ==
    { Index(0), Index(2), Index(-1),
      Slice(None, None, None), Slice(Some(1), Some(4), None),
      Slice(Some(0), Some(6), Some(2)), Slice(Some(3), Some(0), Some(-1)),
      Slice(Some(2), Some(3), None), Slice(Some(-3), None, None),
      Slice(Some(0), Some(-1), None), Slice(Some(0), Some(20), None) }

\* obj[item]
Call_wave_getitem ==
    /\ Settled /\ IsWave
    /\ \E item \in WaveItems, strict \in BOOLEAN :
         Query("wave.getitem", [item |-> item], Wave_getitem(obj, item, strict))

\* obj.get_end(unit)
Call_wave_get_end ==
    /\ Settled /\ IsWave
    /\ \E unit \in WaveUnits :
         Query("wave.get_end", [unit |-> unit], Wave_get_end(obj, unit))

\* obj.get_range(unit)
Call_wave_get_range ==
    /\ Settled /\ IsWave
    /\ \E unit \in WaveUnits :
         Query("wave.get_range", [unit |-> unit], Wave_get_range(obj, unit))

Next ==
    \/ Call_pix2sky
    \/ Call_sky2pix
    \/ Call_getitem
    \/ Call_resample
    \/ Call_rebin
    \/ Call_set_step
    \/ Call_rotate
    \/ Call_set_step_unit
    \/ Call_resample_unit
    \/ Call_set_step_number
    \/ Call_rotate_none
    \/ Call_isEqual
    \/ Call_wave_isEqual
    \/ Call_wave_getitem
    \/ Call_wave_get_end
    \/ Call_wave_get_range
    \/ Call_wave_coord
    \/ Call_wave_pixel
    \/ Call_wave_resample
    \/ Call_wave_rebin

Spec == Init /\ [][Next]_vars

-----------------------------------------------------------------------------
(* bounding_box is a function of its arguments alone: a behaviour picks the *)
(* arguments and then makes the one call.                                   *)

BoxForms == { "rectangle", "ellipse", "triangle" }
BoxCenters == { P(2, 2), P(0, 0), <<I(-3), I(7)>>, <<Q(5, 2), Q(9, 2)>>, P(10, 1) }
BoxRadii == { Num(One), Num(Zero), NumSeq(<<I(1), I(1)>>), NumSeq(<<I(1), I(2)>>),
              NumSeq(<<I(3), Half>>), NumSeq(<<I(20), I(20)>>) }
BoxAngles == { Deg0, Deg90, Deg180, DegM90, Deg345, NegAngle(Deg345) }
BoxShapes == { <<5, 5>>, <<1, 1>>, <<3, 6>> }
BoxSteps == { P(1, 1), <<Half, I(2)>>, <<Q(1, 5), Q(1, 5)>> }

\* the arguments of a call: an ellipse off the axes is a circle, so that its
\* extents are rational
BoxArgs ==
    { a \in [ form : BoxForms, center : BoxCenters, radii : BoxRadii,
              posangle : BoxAngles, shape : BoxShapes, step : BoxSteps ] :
        (a.radii.seq /\ a.radii.vs[1] # a.radii.vs[2]) =>
            (a.form = "rectangle" \/ a.posangle \in {Deg0, Deg90, Deg180, DegM90}) }

BoxInit == \E a \in BoxArgs : call = <<"args", 0, None, None, a, None>>

\* bounding_box(form, center, radii, posangle, shape, step)
Call_bounding_box ==
    /\ op = "args"
    /\ call' = <<"bounding_box", 0, None, None, args,
                 bounding_box(args.form, args.center, args.radii,
                              args.posangle, args.shape, args.step)>>

BoxNext == Call_bounding_box

BoxSpec == BoxInit /\ [][BoxNext]_vars

-----------------------------------------------------------------------------
(* Headers: a behaviour picks a header, or the parameters of __init__,     *)
(* builds the WCS and writes its header.                                   *)

HdrMats ==
    { Id2,
      << <<Q(-1, 5), Zero>>, <<Zero, Q(1, 5)>> >>,
      << <<Zero, I(-2)>>, <<One, Zero>> >>,
      << <<Q(3, 5), Q(-4, 5)>>, <<Q(4, 5), Q(3, 5)>> >>,
      << <<Q(3, 10), Q(-4, 5)>>, <<Q(2, 5), Q(3, 5)>> >> }
HdrCdelts == { <<None, None>>, <<Some(One), Some(One)>>,
               <<Some(Q(-1, 5)), Some(Q(1, 5))>>, <<Some(I(2)), Some(Half)>> }

\* headers with CDi_j keys, and headers with PCi_j and CDELTi keys, all or
\* some of them absent
Headers ==
    { [CD |-> SomeMat(m), PC |-> NoMat, CDELT |-> <<None, None>>] : m \in HdrMats }
    \cup { [CD |-> NoMat, PC |-> SomeMat(m), CDELT |-> c] :
              m \in HdrMats, c \in HdrCdelts }
    \cup { [CD |-> NoMat, PC |-> NoMat, CDELT |-> c] : c \in HdrCdelts }

HdrInit ==
    \/ \E h \in Headers :
         call = <<"args", 0, None, None, [hdr |-> Some(h), init |-> None], None>>
    \/ \E a \in WCSArgs :
         call = <<"args", 0, None, None, [hdr |-> None, init |-> Some(a)], None>>

\* WCS(hdr) or WCS(crpix, crval, cdelt, deg, rot, shape)
Call_WCS ==
    /\ op = "args"
    /\ LET w == IF ~IsNone(args.hdr) THEN WCS_from_header(Val(args.hdr))
                ELSE WCS_prm(WCS_new(Val(args.init)))
       IN  call' = <<"init", 0, w, w, args, None>>

\* obj.to_header()
Call_to_header ==
    /\ op = "init"
    /\ \E terse \in BOOLEAN :
         call' = <<"to_header", 0, obj, obj, [terse |-> terse],
                   WCS_to_header(obj, terse)>>

HdrNext ==
    \/ Call_WCS
    \/ Call_to_header

HdrSpec == HdrInit /\ [][HdrNext]_vars

-----------------------------------------------------------------------------
(* Derived instances: a behaviour takes an instance, derives a second one  *)
(* from it and then calls one setter on the second.  obj is                *)
(* [heap, self, res], res being the derived instance once there is one.    *)

\* the one instance w
Alone(w) == [heap |-> <<w>>, self |-> [wcs |-> 1, own |-> Own(w)], res |-> None]

CopyInit ==
    \/ \E w \in WCSInits : call = <<"init", 0, Alone(w), Alone(w), None, None>>
    \/ \E w \in WaveInits : call = <<"init", 0, Alone(w), Alone(w), None, None>>

Receiver == View(obj.heap, obj.self)

\* res = self.copy() followed by the assignments that make res the value v
\* of a call result r = [err, val]; a failed call leaves no result
Derived(name, a, r) ==
    LET hi == Heap_put(Heap_copy(obj.heap, obj.self), r.val)
    IN  IF r.err # "" THEN call' = <<name, 0, obj, obj, a, Raise(r.err)>>
        ELSE call' = <<name, 0, [heap |-> hi.heap, self |-> obj.self,
                                 res |-> Some(hi.inst)], obj, a, Ok(hi.inst)>>

\* obj.copy()
Derive_copy ==
    /\ op = "init"
    /\ Derived("copy", None, Ok(Receiver))

\* obj[item] of a WCS
Derive_getitem ==
    /\ op = "init" /\ Receiver.class = "WCS"
    /\ \E iy \in YItems, ix \in XItems :
         Derived("getitem", [item |-> <<iy, ix>>], WCS_getitem(Receiver, <<iy, ix>>))

\* obj.resample(step, start) of a WCS
Derive_resample ==
    /\ op = "init" /\ Receiver.class = "WCS" /\ ~Receiver.deg
    /\ \E step \in Steps, start \in Starts :
         Derived("resample", [step |-> step, start |-> start],
                 Ok(WCS_resample(Receiver, step, start, None)))

\* obj.rebin(factor) of a WCS
Derive_rebin ==
    /\ op = "init" /\ Receiver.class = "WCS"
    /\ \E factor \in Factors :
         Derived("rebin", [factor |-> factor], Ok(WCS_rebin(Receiver, factor)))

\* obj[item] of a WaveCoord, a slice: the result is built by WaveCoord(...)
Derive_wave_getitem ==
    /\ op = "init" /\ Receiver.class = "WaveCoord"
    /\ \E item \in { it \in WaveItems : it.isslice } :
         LET r  == Wave_getitem(Receiver, item, FALSE)
             hi == Heap_new(obj.heap, r.val)
         IN  IF r.err # ""
             THEN call' = <<"wave.getitem", 0, obj, obj, [item |-> item], Raise(r.err)>>
             ELSE call' = <<"wave.getitem", 0,
                            [heap |-> hi.heap, self |-> obj.self, res |-> Some(hi.inst)],
                            obj, [item |-> item], Ok(hi.inst)>>

\* obj.resample(step, start, unit) of a WaveCoord
Derive_wave_resample ==
    /\ op = "init" /\ Receiver.class = "WaveCoord"
    /\ \E step \in WaveSteps, start \in WaveStarts, unit \in WaveUnits :
         Derived("wave.resample", [step |-> step, start |-> start, unit |-> unit],
                 Wave_resample(Receiver, step, start, unit))

\* a setter called on the derived instance, which leaves it standing for v
OnResult(name, a, v) ==
    LET hi == Heap_put([heap |-> obj.heap, inst |-> Val(obj.res)], v)
    IN  call' = <<name, 1, [heap |-> hi.heap, self |-> obj.self,
                            res |-> Some(hi.inst)], obj, a, None>>

Result == View(obj.heap, Val(obj.res))
HasResult == op # "init" /\ nmut = 0 /\ ~IsNone(obj.res)

\* res.set_crpix1(x); res.set_crpix2(y), or res.set_crpix(x)
Result_set_crpix ==
    /\ HasResult
    /\ \E x \in { Q(5, 2), I(7) } :
         OnResult("res.set_crpix", [x |-> x],
                  IF Result.class = "WCS" THEN set_crpix2(set_crpix1(Result, x), x)
                  ELSE Wave_set_crpix(Result, x))

\* res.set_crval1(x); res.set_crval2(y), or res.set_crval(x)
Result_set_crval ==
    /\ HasResult
    /\ \E x \in { Q(5, 2), I(7) } :
         OnResult("res.set_crval", [x |-> x],
                  IF Result.class = "WCS"
                  THEN set_crval2(set_crval1(Result, x, None), x, None)
                  ELSE Wave_set_crval(Result, x, None))

\* res.set_step(step)
Result_set_step ==
    /\ HasResult
    /\ \E step \in Steps :
         OnResult("res.set_step", [step |-> step],
                  IF Result.class = "WCS" THEN WCS_set_step(Result, step, None)
                  ELSE Wave_set_step(Result, step[1], None))

\* res.rotate(theta)
Result_rotate ==
    /\ HasResult /\ Result.class = "WCS"
    /\ \E theta \in Thetas :
         OnResult("res.rotate", [theta |-> theta], rotate(Result, theta))

CopyNext ==
    \/ Derive_copy
    \/ Derive_getitem
    \/ Derive_resample
    \/ Derive_rebin
    \/ Derive_wave_getitem
    \/ Derive_wave_resample
    \/ Result_set_crpix
    \/ Result_set_crval
    \/ Result_set_step
    \/ Result_rotate

CopySpec == CopyInit /\ [][CopyNext]_vars

-----------------------------------------------------------------------------
(* Claims.                                                                 *)

\* the list of pixel pairs of test_coordTransform
TestPix == <<P(0, 0), P(2, 3), P(3, 2)>>

\* C1: on a WCS with a non-singular transform matrix, sky2pix of the world
\* coordinates that pix2sky gives to pixel pairs inside the array returns
\* those pairs, for a single pair and for an ordered list of pairs.
C1_SkyPixRoundTrip ==
    (op = "sky2pix" /\ ~args.nearest /\ Det(obj.cd) # Zero) =>
        \A l \in PixLists(obj) :
            args.x = pix2sky(obj, l, None) => ret = l

\* C1 witness: the list of three pairs came back from a rotated WCS, and a
\* single pair came back from one with non-square pixels
C1_Witness ==
    /\ op = "sky2pix" /\ ~args.nearest
    /\ obj.cd[1][2] # Zero /\ obj.cd[1][1] # Zero
    /\ args.x = pix2sky(obj, TestPix, None)
    /\ ret = TestPix

\* C2: on a WaveCoord with a declared shape, pixel(coord(i), nearest=True)
\* is i for every pixel i of the shape, with the same unit named on both
\* calls or none, for a number and for a sequence of indexes.
C2_WaveRoundTrip ==
    (op = "wave.pixel" /\ args.nearest /\ ~IsNone(obj.shape)) =>
        /\ \A i \in WavePix(obj) :
              args.lbda = Num(coord1(obj, I(i), args.unit)) => ret = I(i)
        /\ \A q \in WavePixSeqs(obj) :
              args.lbda = NumSeq([k \in 1..Len(q) |-> coord1(obj, q[k], args.unit)])
                  => ret = q

\* C2 witness: the ten indexes of np.arange(10) came back with the unit
\* Angstrom named on both calls of an object kept in nm
C2_Witness ==
    /\ op = "wave.pixel" /\ args.nearest
    /\ obj.shape = Some(10) /\ obj.unit = Nm /\ args.unit = Some(Angstrom)
    /\ args.lbda.seq /\ Len(args.lbda.vs) = 10
    /\ ret = Arange(10)

\* the 2D slices [r0:r1, c0:c1] of C3: both bounds given on both axes,
\* no stride, 0 <= r0 < r1 <= ny and 0 <= c0 < c1 <= nx
PlainSlice(it, n) ==
    /\ it.isslice /\ ~IsNone(it.start) /\ ~IsNone(it.stop)
    /\ IsNone(it.step) \/ it.step = Some(1)
    /\ 0 <= Val(it.start) /\ Val(it.start) < Val(it.stop) /\ Val(it.stop) <= n

\* C3: w[r0:r1, c0:c1] with the bounds inside the array is a WCS with
\* extents (r1-r0, c1-c0), the step and the rotation of w, that maps every
\* pixel (j, i) to the world coordinate w gives to (j+r0, i+c0); its
\* get_start() is w.pix2sky((r0, c0)).
C3_SliceShifts ==
    (op = "getitem" /\ PlainSlice(args.item[1], obj.naxis2)
                    /\ PlainSlice(args.item[2], obj.naxis1)) =>
        LET r0 == Val(args.item[1].start)
            r1 == Val(args.item[1].stop)
            c0 == Val(args.item[2].start)
            c1 == Val(args.item[2].stop)
        IN  /\ ret.err = ""
            /\ ret.val.naxis2 = r1 - r0
            /\ ret.val.naxis1 = c1 - c0
            /\ WCS_get_step(ret.val, None) = WCS_get_step(obj, None)
            /\ get_rot(ret.val) = get_rot(obj)
            /\ ~obj.deg =>
                 /\ \A j \in 0..(r1 - r0 - 1), i \in 0..(c1 - c0 - 1) :
                       pix2sky1(ret.val, P(j, i), None)
                         = pix2sky1(obj, P(j + r0, i + c0), None)
                 /\ WCS_get_start(ret.val, None) = pix2sky1(obj, P(r0, c0), None)

\* C3 witness: the slice [0:2, 1:4] of test_image.py on a rotated WCS of
\* extents (6, 5) gave extents (2, 3)
C3_Witness ==
    /\ op = "getitem"
    /\ args.item = <<Slice(Some(0), Some(2), None), Slice(Some(1), Some(4), None)>>
    /\ obj.naxis2 = 6 /\ obj.naxis1 = 5 /\ obj.cd[1][2] # Zero /\ ~obj.deg
    /\ ret.err = "" /\ ret.val.naxis2 = 2 /\ ret.val.naxis1 = 3
    /\ WCS_get_start(ret.val, None) = pix2sky1(obj, P(0, 1), None)

\* C4: for every 2D slice of a WCS with extents (ny, nx), whatever the
\* start and stop values, the bounds used are clamped to [0, naxis], so the
\* extents of the result are within 0..ny and 0..nx.
C4_SliceClamped ==
    (op = "getitem" /\ obj.naxis1 > 0 /\ obj.naxis2 > 0
                    /\ args.item[1].isslice /\ args.item[2].isslice
                    /\ ret.err = "") =>
        /\ 0 <= ret.val.naxis2 /\ ret.val.naxis2 <= obj.naxis2
        /\ 0 <= ret.val.naxis1 /\ ret.val.naxis1 <= obj.naxis1

\* a slice with an index step other than 1
Strided(it) == it.isslice /\ ~IsNone(it.step) /\ Val(it.step) # 1

\* C5: slicing a WCS with an index step other than 1 on the row range or on
\* the column range fails with an error, and leaves the receiver unchanged.
C5_StrideRejected ==
    (op = "getitem" /\ (Strided(args.item[1]) \/ Strided(args.item[2]))) =>
        ret.err # "" /\ obj = obj0

\* C6: for integer factors (fy, fx) that divide the extents (ny, nx),
\* w.rebin((fy, fx)) has extents (ny/fy, nx/fx) and maps each binned pixel
\* (j, i) to the world coordinate w gives to the centre of its block,
\* ((j+0.5)*fy - 0.5, (i+0.5)*fx - 0.5), whatever the rotation of w.
C6_RebinCentres ==
    (op = "rebin" /\ ~obj.deg /\ obj.naxis1 > 0 /\ obj.naxis2 > 0
                  /\ obj.naxis2 % args.factor[1] = 0
                  /\ obj.naxis1 % args.factor[2] = 0) =>
        LET fy == args.factor[1]
            fx == args.factor[2]
        IN  /\ ret.naxis2 = obj.naxis2 \div fy
            /\ ret.naxis1 = obj.naxis1 \div fx
            /\ \A j \in 0..(ret.naxis2 - 1), i \in 0..(ret.naxis1 - 1) :
                  pix2sky1(ret, P(j, i), None)
                    = pix2sky1(obj,
                               <<Minus(Times(Plus(I(j), Half), I(fy)), Half),
                                 Minus(Times(Plus(I(i), Half), I(fx)), Half)>>,
                               None)

\* the sum of coord(first), ..., coord(first + count - 1) of a WaveCoord
RECURSIVE CoordSum(_, _, _)
CoordSum(self, first, count) ==
    IF count = 0 THEN Zero
    ELSE Plus(coord1(self, I(first), None), CoordSum(self, first + 1, count - 1))

\* C7: WaveCoord.rebin(f) on an instance of shape n, f dividing n,
\* multiplies the step by f, sets the shape to n/f and places every new
\* pixel k at the mean of the coordinates of the old pixels f*k .. f*k+f-1;
\* shape 10, step 1, start 0 rebinned by 2 has step 2, start 0.5, shape 5
\* and coord(2) = 4.5.
C7_WaveRebinCentres ==
    (op = "wave.rebin" /\ ~IsNone(obj0.shape)
                       /\ Val(obj0.shape) % args.factor = 0) =>
        LET f == args.factor
            n == Val(obj0.shape)
        IN  /\ ret.err = ""
            /\ Wave_get_step(obj, None) = Times(I(f), Wave_get_step(obj0, None))
            /\ obj.shape = Some(n \div f)
            /\ \A k \in 0..((n \div f) - 1) :
                  Times(I(f), coord1(obj, I(k), None)) = CoordSum(obj0, f * k, f)
            /\ (obj0 = Wave_init(One, One, Zero, Nm, Some(10)) /\ f = 2) =>
                  /\ Wave_get_step(obj, Some(Nm)) = I(2)
                  /\ Wave_get_start(obj, Some(Nm)) = Half
                  /\ coord1(obj, I(2), Some(Nm)) = Q(9, 2)
                  /\ obj.shape = Some(5)

\* C7 witness: the rebin of test_rebin was made, and a rebin by 3
C7_Witness ==
    /\ op = "wave.rebin" /\ ret.err = ""
    /\ obj0 = Wave_init(One, One, Zero, Nm, Some(10))
    /\ args.factor = 2
    /\ obj.shape = Some(5)

\* C8: WaveCoord.resample(step, start, unit) returns a WaveCoord whose
\* get_step() is step and whose get_start() is start, both converted from
\* unit into the unit of the object, and whose shape is
\* ceil((oldLen*oldStep - newStart + oldStart) / newStep); crval 0, step
\* 1 nm, shape 10 resampled with step 2.5 and start 20 in Angstrom has
\* step 0.25 nm, start 2.0 nm and shape 32.
C8_WaveResample ==
    (op = "wave.resample" /\ ~IsNone(obj.shape)) =>
        LET own(x) == IF IsNone(args.unit) THEN x ELSE To(x, Val(args.unit), obj.unit)
            ns   == own(args.step)
            r    == ret.val
            x    == Over(Plus(Minus(Times(I(Val(obj.shape)), Wave_get_step(obj, None)),
                                    Wave_get_start(r, None)),
                              Wave_get_start(obj, None)), ns)
        IN  /\ ret.err = ""
            /\ Wave_get_step(r, None) = ns
            /\ ~IsNone(args.start) => Wave_get_start(r, None) = own(Val(args.start))
            /\ Less(I(Val(r.shape) - 1), x) /\ LessEq(x, I(Val(r.shape)))
            /\ (obj = Wave_init(One, One, Zero, Nm, Some(10))
                  /\ args.step = Q(5, 2) /\ args.start = Some(I(20))
                  /\ args.unit = Some(Angstrom)) =>
                  /\ Wave_get_step(r, Some(Nm)) = Q(1, 4)
                  /\ Wave_get_start(r, Some(Nm)) = I(2)
                  /\ r.shape = Some(32)

\* C8 witness: the resample of test_resample was made and gave shape 32
C8_Witness ==
    /\ op = "wave.resample" /\ ret.err = ""
    /\ obj = Wave_init(One, One, Zero, Nm, Some(10))
    /\ args.step = Q(5, 2) /\ args.start = Some(I(20)) /\ args.unit = Some(Angstrom)
    /\ ret.val.shape = Some(32)

\* start + (len - 0.5) * step: the far edge of the last pixel of a grid
FarEdge(start, len, step) == Plus(start, Times(Minus(I(len), Half), step))

\* C9: for resample with positive old and new steps and a new start not
\* beyond the old grid, given or defaulted, the new grid reaches the far
\* edge of the old grid: new_start + (new_len - 0.5)*new_step >=
\* old_start + (old_len - 0.5)*old_step; for WaveCoord.resample and, on
\* each axis, for WCS.resample on an unrotated system, new steps larger
\* than the old step included.
C9_ResampleCovers ==
    /\ (op = "wave.resample" /\ ~IsNone(obj.shape) /\ ret.err = ""
          /\ Less(Zero, Wave_get_step(obj, None))
          /\ Less(Zero, Wave_get_step(ret.val, None))
          /\ Less(Wave_get_start(ret.val, None),
                  FarEdge(Wave_get_start(obj, None), Val(obj.shape),
                          Wave_get_step(obj, None)))) =>
           LessEq(FarEdge(Wave_get_start(obj, None), Val(obj.shape),
                          Wave_get_step(obj, None)),
                  FarEdge(Wave_get_start(ret.val, None), Val(ret.val.shape),
                          Wave_get_step(ret.val, None)))
    /\ (op = "resample" /\ obj.naxis1 > 0 /\ obj.naxis2 > 0
          /\ obj.cd[1][2] = Zero /\ obj.cd[2][1] = Zero
          /\ Less(Zero, obj.cd[1][1]) /\ Less(Zero, obj.cd[2][2])) =>
           \A a \in 1..2 :
              LET old == WCS_get_start(obj, None)[a]
                  new == WCS_get_start(ret, None)[a]
                  n   == IF a = 1 THEN obj.naxis2 ELSE obj.naxis1
                  m   == IF a = 1 THEN ret.naxis2 ELSE ret.naxis1
                  ostep == WCS_get_step(obj, None)[a]
              IN  Less(new, FarEdge(old, n, ostep)) =>
                     LessEq(FarEdge(old, n, ostep), FarEdge(new, m, args.step[a]))

\* C10: after WCS.set_step(s) with positive s on a WCS with any rotation,
\* get_step() returns s and get_rot() the angle it returned before; the
\* reference pixel, the reference value and the extents are unchanged.
C10_SetStepKeepsRot ==
    (op = "set_step") =>
        /\ WCS_get_step(obj, None) = args.step
        /\ get_rot(obj) = get_rot(obj0)
        /\ obj.crpix = obj0.crpix
        /\ obj.crval = obj0.crval
        /\ obj.naxis1 = obj0.naxis1 /\ obj.naxis2 = obj0.naxis2

\* C10 witness: set_step([0.5, 2.5]) of test_get was made on a WCS in
\* degrees rotated off the axes
C10_Witness ==
    /\ op = "set_step" /\ args.step = <<Q(1, 2), Q(5, 2)>>
    /\ obj0.deg
    /\ get_rot(obj0) \notin {Deg0, Deg90, Deg180, DegM90}
    /\ get_rot(obj) = get_rot(obj0)
    /\ WCS_get_step(obj, None) = <<Q(1, 2), Q(5, 2)>>

\* C11: for every WCS and angle theta, rotate(theta) followed by
\* rotate(-theta) restores the transform matrix: get_step() is what it was
\* before the two calls and pix2sky of every pixel is unchanged.  At a
\* state reached by rotate(theta), obj0 is the object before that call;
\* the step taken is the call rotate(-theta).
C11_RotateBack ==
    [][(op = "rotate" /\ op' = "rotate" /\ args'.theta = NegAngle(args.theta)) =>
          /\ obj'.cd = obj0.cd
          /\ WCS_get_step(obj', None) = WCS_get_step(obj0, None)
          /\ obj' = obj0
          /\ ~obj0.deg =>
                \A k \in 1..Len(TestPix) :
                    pix2sky1(obj', TestPix[k], None) = pix2sky1(obj0, TestPix[k], None)]_vars

\* C11 witness: a WCS with non-square pixels was rotated by the 3-4-5 angle
\* and back, and is the WCS it was at construction
C11_Witness ==
    /\ op = "rotate" /\ nmut = 2
    /\ args.theta = NegAngle(Deg345)
    /\ obj0 = rotate(obj, Deg345)
    /\ obj0.cd # obj.cd
    /\ obj \in WCSInits
    /\ WCS_get_step(obj, None) = <<I(1), I(2)>>

\* C12: WCS.isEqual and WaveCoord.isEqual are reflexive and symmetric:
\* a.isEqual(a) is true and a.isEqual(b) = b.isEqual(a) for every pair,
\* pairs kept in different units (nm and Angstrom) included.
C12_IsEqualSymmetric ==
    /\ op = "isEqual" =>
          /\ args.other = obj => ret
          /\ ret = WCS_isEqual(args.other, obj)
    /\ op = "wave.isEqual" =>
          /\ args.other = obj => ret
          /\ ret = Wave_isEqual(args.other, obj)

\* the pixels a call of WaveCoord.pixel returned, as a sequence
PixelResults == IF args.lbda.seq THEN ret ELSE <<ret>>

\* the nearest-pixel lookup of a WCS with non-zero extents returns a row
\* within 0..naxis2-1 and a column within 0..naxis1-1 for every world point
SkyNearestInRange ==
    (op = "sky2pix" /\ args.nearest /\ obj.naxis1 > 0 /\ obj.naxis2 > 0) =>
        \A k \in 1..Len(ret) :
            /\ ret[k][1][2] = 1 /\ ret[k][2][2] = 1
            /\ ret[k][1][1] \in 0..(obj.naxis2 - 1)
            /\ ret[k][2][1] \in 0..(obj.naxis1 - 1)

\* C13 as claimed: nearest-pixel lookups return no out-of-range index when
\* the extent is known: WCS.sky2pix(x, nearest=True) as above, and
\* WaveCoord.pixel(v, nearest=True) returns k >= 0 and, when the shape is
\* declared, k <= shape - 1.
C13_NearestInRange ==
    /\ SkyNearestInRange
    /\ (op = "wave.pixel" /\ args.nearest) =>
          \A k \in 1..Len(PixelResults) :
              /\ PixelResults[k][2] = 1
              /\ PixelResults[k][1] >= 0
              /\ ~IsNone(obj.shape) => PixelResults[k][1] <= Val(obj.shape) - 1

\* C13 amended: as claimed for WCS.sky2pix; WaveCoord.pixel(v,
\* nearest=True) returns k >= 0 when no shape is declared and
\* 0 <= k <= shape - 1 when the declared shape is at least 1.
C13_NearestInRangeNonEmpty ==
    /\ SkyNearestInRange
    /\ (op = "wave.pixel" /\ args.nearest
           /\ (IsNone(obj.shape) \/ Val(obj.shape) >= 1)) =>
          \A k \in 1..Len(PixelResults) :
              /\ PixelResults[k][2] = 1
              /\ PixelResults[k][1] >= 0
              /\ ~IsNone(obj.shape) => PixelResults[k][1] <= Val(obj.shape) - 1

\* C13 witness: a wavelength far beyond the last pixel of a WaveCoord of
\* shape 10 gave pixel 9
C13_Witness ==
    /\ op = "wave.pixel" /\ args.nearest
    /\ obj.shape = Some(10)
    /\ args.lbda = Num(I(100000))
    /\ ret = I(9)

\* C14: a WCS built from parameters with crpix omitted has its reference
\* pixel at the centre of the image, (shape + 1)/2 on each axis, when the
\* shape is given and at (1, 1) otherwise; built with crval omitted its
\* reference value is (0, 0).
C14_InitDefaults ==
    (op = "init" /\ IsWCS) =>
        /\ (IsNone(args.crpix) /\ ~IsNone(args.shape)) =>
              obj.crpix = <<Over(I(Val(args.shape)[2] + 1), I(2)),
                            Over(I(Val(args.shape)[1] + 1), I(2))>>
        /\ (IsNone(args.crpix) /\ IsNone(args.shape)) => obj.crpix = <<One, One>>
        /\ IsNone(args.crval) => obj.crval = <<Zero, Zero>>

\* C15: for a WCS built from the parameters cdelt = (dy, dx) and rot = r,
\* get_step() returns (|dy|, |dx|), the increments per pixel along the Y
\* and the X axis of the array, for every rotation r, r = 90 degrees with
\* dy # dx included.
C15_InitStep ==
    (op = "init" /\ IsWCS) =>
        WCS_get_step(obj, None) = <<QAbs(args.cdelt[1]), QAbs(args.cdelt[2])>>

\* C16: for a WCS built from parameters with rot = r, get_rot() returns r
\* (modulo 360 degrees) for every non-zero cdelt, non-square pixels and a
\* negative X increment cdelt[1] < 0 included.
C16_InitRot ==
    (op = "init" /\ IsWCS) => get_rot(obj) = args.rot

\* the items whose range depends on the shape: a negative integer, a slice
\* with an omitted or negative stop or a negative start
NeedsShape(it) ==
    IF ~it.isslice THEN it.index < 0
    ELSE \/ IsNone(it.stop)
         \/ Val(it.stop) < 0
         \/ ~IsNone(it.start) /\ Val(it.start) < 0

\* C17: on a WaveCoord with no declared shape coord(i) succeeds (pixel(v)
\* has no failing path), and every range-dependent operation fails with
\* an error and leaves the object unchanged: coord() with no pixel,
\* get_end(), get_range(), indexing with a negative integer or with a
\* slice with an omitted or negative stop or a negative start, resample
\* and rebin.
C17_NoShape ==
    (IsWave /\ IsNone(obj0.shape) /\ op # "init") =>
        /\ (op = "wave.coord" /\ ~IsNone(args.pixel)) => ret.err = ""
        /\ (op = "wave.coord" /\ IsNone(args.pixel)) => ret.err # ""
        /\ op \in {"wave.get_end", "wave.get_range", "wave.resample", "wave.rebin"} =>
              ret.err # ""
        /\ (op = "wave.getitem" /\ NeedsShape(args.item)) => ret.err # ""
        /\ obj = obj0


\* the bounds and stride a:b:s of a slice, an omitted start being 0, an
\* omitted stop the shape n, an omitted stride 1, and a negative bound
\* counting from the end n
SliceA(it, n) ==
    IF IsNone(it.start) THEN 0
    ELSE IF Val(it.start) >= 0 THEN Val(it.start) ELSE Val(n) + Val(it.start)
SliceB(it, n) ==
    IF IsNone(it.stop) THEN Val(n)
    ELSE IF Val(it.stop) >= 0 THEN Val(it.stop) ELSE Val(n) + Val(it.stop)
SliceS(it) == IF IsNone(it.step) THEN 1 ELSE Val(it.step)

\* the pixels a, a + s, a + 2s, ... that come before b
Selected(a, b, s) ==
    IF s > 0 THEN { i \in a..(b - 1) : (i - a) % s = 0 }
    ELSE { i \in (b + 1)..a : (a - i) % (-s) = 0 }

\* C18: slicing a WaveCoord w with a range a:b:s fails when fewer than 2
\* pixels are selected, and otherwise returns a WaveCoord whose shape is the
\* number of selected pixels, whose step is the spacing of the first two
\* selected coordinates, s times the step of w, and whose pixel k has the
\* coordinate of pixel a + k*s of w.
C18_WaveSlice ==
    (/\ op = "wave.getitem" /\ args.item.isslice
     /\ (NeedsShape(args.item) => ~IsNone(obj.shape))) =>
        LET a == SliceA(args.item, obj.shape)
            b == SliceB(args.item, obj.shape)
            s == SliceS(args.item)
            n == Cardinality(Selected(a, b, s))
        IN  IF n < 2 THEN ret.err # ""
            ELSE /\ ret.err = ""
                 /\ ret.val.class = "WaveCoord"
                 /\ ret.val.shape = Some(n)
                 /\ Wave_get_step(ret.val, None) =
                        Minus(coord1(obj, I(a + s), None), coord1(obj, I(a), None))
                 /\ Wave_get_step(ret.val, None) =
                        Times(I(s), Wave_get_step(obj, None))
                 /\ \A k \in 0..(n - 1) :
                        coord1(ret.val, I(k), None) = coord1(obj, I(a + k * s), None)

\* w[0:6:2] of a rebinned 10 pixel WaveCoord: 3 pixels, twice the step
C18_Witness ==
    /\ op = "wave.getitem"
    /\ args.item = Slice(Some(0), Some(6), Some(2))
    /\ nmut = 1
    /\ obj.shape = Some(5)
    /\ obj.crpix # One
    /\ ret.err = ""
    /\ ret.val.shape = Some(3)
    /\ Wave_get_step(ret.val, None) = Times(I(2), Wave_get_step(obj, None))
    /\ coord1(ret.val, I(2), None) = coord1(obj, I(4), None)

\* a number as a returned Python object
Scalar(v) == [class |-> "float", value |-> v]

\* C19: indexing a WaveCoord with one integer i >= 0 returns the scalar
\* coord(i); a negative i returns coord(shape + i) and fails when no shape is
\* declared.
C19_WaveIndex ==
    (op = "wave.getitem" /\ ~args.item.isslice) =>
        LET i == args.item.index
        IN  IF i < 0 /\ IsNone(obj.shape) THEN ret.err # ""
            ELSE /\ ret.err = ""
                 /\ ret.val = Scalar(coord1(obj, I(IF i >= 0 THEN i
                                                   ELSE Val(obj.shape) + i), None))

\* C20: for a rectangle or an ellipse on an array of ny >= 1 rows and
\* nx >= 1 columns with a positive pixel step, bounding_box returns a row
\* range [r0, r1) and a column range [c0, c1) with 0 <= r0 < r1 <= ny and
\* 0 <= c0 < c1 <= nx; for the ellipse of centre (2, 2), radii (1, 1) and
\* angle 0 on a (5, 5) array of step (1, 1) both ranges are [1, 4).
C20_BoxInRange ==
    (op = "bounding_box" /\ args.form \in {"rectangle", "ellipse"}) =>
        /\ ret.err = ""
        /\ LET r == ret.val[1]
               c == ret.val[2]
           IN  /\ 0 <= r[1] /\ r[1] < r[2] /\ r[2] <= args.shape[1]
               /\ 0 <= c[1] /\ c[1] < c[2] /\ c[2] <= args.shape[2]
        /\ (/\ args.form = "ellipse" /\ args.center = P(2, 2)
            /\ args.radii \in {Num(One), NumSeq(<<One, One>>)}
            /\ args.posangle = Deg0 /\ args.shape = <<5, 5>>
            /\ args.step = P(1, 1)) => ret.val = << <<1, 4>>, <<1, 4>> >>

\* the ellipse of the example
C20_Witness ==
    /\ op = "bounding_box"
    /\ args = [form |-> "ellipse", center |-> P(2, 2),
               radii |-> NumSeq(<<One, One>>),
               posangle |-> Deg0, shape |-> <<5, 5>>, step |-> P(1, 1)]
    /\ ret = Ok(<< <<1, 4>>, <<1, 4>> >>)

\* the index range of an axis of n pixels around centre c with half-extent
\* h pixels, both ends clipped to [0, n - 1]
BoxRange(c, h, n) ==
    << Clip(Trunc(Minus(c, h)), 0, n - 1), Clip(Trunc(Plus(c, h)), 0, n - 1) + 1 >>

\* the ranges of a rectangle of X radius rx and Y radius ry: the X
\* half-extent is |rx cos| + |ry sin|, the Y half-extent |rx sin| + |ry cos|
RectRanges(a, rx, ry) ==
    LET xh == Plus(QAbs(Times(rx, Cos(a.posangle))), QAbs(Times(ry, Sin(a.posangle))))
        yh == Plus(QAbs(Times(rx, Sin(a.posangle))), QAbs(Times(ry, Cos(a.posangle))))
    IN  << BoxRange(a.center[1], Over(yh, a.step[1]), a.shape[1]),
           BoxRange(a.center[2], Over(xh, a.step[2]), a.shape[2]) >>

\* C21 as stated: for a rectangle with radii given as the pair (ry, rx) the
\* ranges are those of X half-extent |rx cos(pa)| + |ry sin(pa)| and Y
\* half-extent |rx sin(pa)| + |ry cos(pa)|.
C21_RectExtentYX ==
    (op = "bounding_box" /\ args.form = "rectangle") =>
        /\ ret.err = ""
        /\ ret.val = RectRanges(args,
                                IF args.radii.seq THEN args.radii.vs[2] ELSE args.radii.v,
                                IF args.radii.seq THEN args.radii.vs[1] ELSE args.radii.v)

\* C21: for a rectangle with radii given as the pair (rx, ry), half-width
\* first, the ranges are those of X half-extent |rx cos(pa)| + |ry sin(pa)|
\* and Y half-extent |rx sin(pa)| + |ry cos(pa)|: at pa = 0 the columns span
\* center_x -/+ rx/stepX and the rows center_y -/+ ry/stepY, and at 90
\* degrees the radii swap axes.
C21_RectExtentXY ==
    (op = "bounding_box" /\ args.form = "rectangle") =>
        /\ ret.err = ""
        /\ ret.val = RectRanges(args,
                                IF args.radii.seq THEN args.radii.vs[1] ELSE args.radii.v,
                                IF args.radii.seq THEN args.radii.vs[2] ELSE args.radii.v)

\* a rectangle of radii (rx, ry) = (1, 2) turned by 90 degrees on a (5, 5)
\* array: one row either side of the centre, two columns
C21_Witness ==
    /\ op = "bounding_box"
    /\ args = [form |-> "rectangle", center |-> P(2, 2),
               radii |-> NumSeq(<<I(1), I(2)>>),
               posangle |-> Deg90, shape |-> <<5, 5>>, step |-> P(1, 1)]
    /\ ret = Ok(<< <<1, 4>>, <<0, 5>> >>)

\* the matrix CDELTi * PCi_j of a transform
CdeltPc(w) ==
    IF w.has_cd THEN w.cd
    ELSE [i \in 1..2 |-> [j \in 1..2 |-> Times(w.cdelt[i], w.pc[i][j])]]

\* the header has the keys CDi_j of matrix m and no PCi_j or CDELTi key
OnlyCD(hdr, m) ==
    /\ hdr.CD = SomeMat(m)
    /\ hdr.PC = NoMat
    /\ hdr.CDELT = <<None, None>>

\* C22 as stated: to_header writes CDi_j = CDELTi * PCi_j and no PCi_j or
\* CDELTi key for every WCS, one built from a header with PC and CDELT
\* included.
C22_HeaderCD ==
    op = "to_header" => OnlyCD(ret, CdeltPc(obj))

\* C22: to_header writes CDi_j = CDELTi * PCi_j and no PCi_j or CDELTi key
\* for every WCS that holds a CD matrix, built from parameters or from a
\* header with CDi_j keys.
C22_HeaderCDKept ==
    (op = "to_header" /\ obj.has_cd) => OnlyCD(ret, CdeltPc(obj))

\* the header of a rotated WCS that holds a CD matrix, written from a
\* library header that left out nothing
C22_Witness ==
    /\ op = "to_header"
    /\ obj.has_cd
    /\ ~args.terse
    /\ obj.cd = << <<Q(3, 5), Q(-4, 5)>>, <<Q(4, 5), Q(3, 5)>> >>
    /\ ret.CD = SomeMat(obj.cd)
    /\ ret.PC = NoMat

\* C23: copy, slicing, resample and rebin of a WCS and copy, slicing and
\* resample of a WaveCoord return a new instance and leave the receiver as
\* it was; a copy isEqual its original; and a setter called afterwards on
\* the returned instance does not change the receiver.
C23_Independent ==
    op # "init" =>
        /\ Receiver = View(obj0.heap, obj0.self)
        /\ ~IsNone(obj.res) =>
              /\ Val(obj.res) # obj.self
              /\ Val(obj.res).wcs # obj.self.wcs
        /\ (op = "copy" /\ Receiver.class = "WCS" /\ ~Receiver.deg) =>
              WCS_isEqual(Receiver, Result) /\ WCS_isEqual(Result, Receiver)
        /\ (op = "copy" /\ Receiver.class = "WaveCoord") =>
              Wave_isEqual(Receiver, Result) /\ Wave_isEqual(Result, Receiver)
        /\ op = "copy" => Result = Receiver

\* a copy of a WCS rotated afterwards: the copy has turned, the original
\* has not
C23_Witness ==
    /\ op = "res.rotate"
    /\ Receiver.class = "WCS"
    /\ View(obj0.heap, Val(obj0.res)) = Receiver
    /\ Result.cd # Receiver.cd
    /\ Receiver = View(obj0.heap, obj0.self)

\* the rotation matrix of angle a
RotMat(a) == << <<Cos(a), Neg(Sin(a))>>, <<Sin(a), Cos(a)>> >>

\* C24: rotate(theta) replaces the matrix M by M times the rotation matrix
\* of -theta and leaves the reference pixel, the reference value and the
\* extents as they were.
C24_RotateMatrix ==
    op = "rotate" =>
        /\ obj.cd = Dot(obj0.cd, RotMat(NegAngle(args.theta)))
        /\ obj.crpix = obj0.crpix
        /\ obj.crval = obj0.crval
        /\ obj.naxis1 = obj0.naxis1
        /\ obj.naxis2 = obj0.naxis2

\* the outer edge of pixel 0 of a WCS whose axes are along the world axes:
\* the start less half of the signed increment, as <<Y, X>>
WCSEdge(w) ==
    LET start == pix2sky1(w, <<Zero, Zero>>, None)
    IN  << Minus(start[1], Times(Half, w.cd[2][2])),
           Minus(start[2], Times(Half, w.cd[1][1])) >>

\* the outer edge of pixel 0 of a WaveCoord
WaveEdge(w) == Minus(coord1(w, Zero, None), Times(Half, Wave_get_step(w, None)))

\* C25: resample with the start omitted places the new grid so that the
\* outer edge of new pixel 0 is the outer edge of old pixel 0 on each axis,
\* the increments taken with their signs, for a WaveCoord and for a WCS,
\* one with a negative X increment included.
C25_ResampleEdge ==
    /\ (op = "wave.resample" /\ IsNone(args.start) /\ ret.err = "") =>
          WaveEdge(ret.val) = WaveEdge(obj)
    /\ (op = "resample" /\ IsNone(args.start)
        /\ obj.cd[1][2] = Zero /\ obj.cd[2][1] = Zero) =>
          WCSEdge(ret) = WCSEdge(obj)

\* k is an integer nearest to the number p
Nearest(k, p) == LessEq(QAbs(Minus(I(k), p)), Half)

\* r is an integer nearest to p, brought into 0..n-1 when the extent n is
\* known
NearestIn(r, p, known, n) ==
    /\ r[2] = 1
    /\ IF known
       THEN \E k \in { Floor(p), Floor(p) + 1 } :
               Nearest(k, p) /\ r[1] = Max(Min(k, n - 1), 0)
       ELSE Nearest(r[1], p)

\* C26: sky2pix(x, nearest=True) returns on each axis the integer nearest
\* to the fractional position sky2pix(x) returns, clamped into the array
\* only when both extents are known; negative positions on a WCS with zero
\* extents included.
C26_NearestRounds ==
    (op = "sky2pix" /\ args.nearest) =>
        \A k \in 1..Len(args.x) :
            LET p     == sky2pix1(obj, args.x[k], FALSE, None)
                known == obj.naxis1 # 0 /\ obj.naxis2 # 0
            IN  /\ NearestIn(ret[k][1], p[1], known, obj.naxis2)
                /\ NearestIn(ret[k][2], p[2], known, obj.naxis1)

\* C27: an in-place mutator that fails leaves the receiver exactly as it
\* was before the call: after WaveCoord.rebin fails on an instance with no
\* shape, and after WCS.set_step or WCS.rotate fails, the step, the
\* reference pixel, the reference value, the shape or extents and the rest
\* of the receiver are what they were.
C27_FailedUnchanged ==
    (op \in {"wave.rebin", "set_step.number", "rotate.none"} /\ ret.err # "") =>
        /\ IsWave => /\ Wave_get_step(obj, None) = Wave_get_step(obj0, None)
                     /\ obj.crpix = obj0.crpix
                     /\ obj.crval = obj0.crval
                     /\ obj.shape = obj0.shape
        /\ IsWCS => /\ WCS_get_step(obj, None) = WCS_get_step(obj0, None)
                    /\ obj.crpix = obj0.crpix
                    /\ obj.crval = obj0.crval
                    /\ obj.naxis1 = obj0.naxis1 /\ obj.naxis2 = obj0.naxis2
        /\ obj = obj0

\* C28: set_step called with the value get_step() returns is a no-op on
\* the mapping: the matrix, the reference pixel and the reference value are
\* what they were and pix2sky of every pixel is the same before and after,
\* for every WCS: LINEAR systems with a negative X increment, angular
\* systems with a positive X increment and rotated systems with non-square
\* pixels included.
C28_SetStepOfGetStep ==
    (op = "set_step" /\ args.step = WCS_get_step(obj0, None)) =>
        /\ obj.cd = obj0.cd
        /\ obj.crpix = obj0.crpix
        /\ obj.crval = obj0.crval
        /\ ~obj0.deg =>
              \A k \in 1..Len(TestPix) :
                  pix2sky1(obj, TestPix[k], None) = pix2sky1(obj0, TestPix[k], None)

\* the one-pixel range i:i+1 that selects the same pixel as the integer
\* index of an item; a range is left as it is
AsRange(it) ==
    IF it.isslice THEN it ELSE Slice(Some(it.index), Some(it.index + 1), None)

\* C29: indexing a WCS with a range on one axis and a single integer on the
\* other, w[r0:r1, c] or w[r, c0:c1], does not fail; the result has extent
\* 1 on the axis of the integer and its reference pixel there is shifted by
\* the integer, and it is the result the one-pixel range gives when the
\* integer is a pixel of the array.
C29_RangeAndIndex ==
    (op = "getitem" /\ args.item[1].isslice # args.item[2].isslice
       /\ ~XStrideBad(args.item)
       /\ ~(args.item[1].isslice /\ ~IsNone(args.item[1].step)
              /\ Val(args.item[1].step) # 1)) =>
        /\ ret.err = ""
        /\ ~args.item[1].isslice =>
              /\ ret.val.naxis2 = 1
              /\ ret.val.crpix[2] = Minus(obj.crpix[2], I(args.item[1].index))
              /\ args.item[1].index < obj.naxis2 =>
                    ret = WCS_getitem(obj, <<AsRange(args.item[1]), args.item[2]>>)
        /\ ~args.item[2].isslice =>
              /\ ret.val.naxis1 = 1
              /\ ret.val.crpix[1] = Minus(obj.crpix[1], I(args.item[2].index))
              /\ args.item[2].index < obj.naxis1 =>
                    ret = WCS_getitem(obj, <<args.item[1], AsRange(args.item[2])>>)

\* C30: WCS.set_step and WCS.resample called with a unit do not modify the
\* step and start sequences of the caller: after the call they hold the
\* values that were passed in.
C30_ArgsKept ==
    /\ op = "set_step.unit" => ret.step = args.step
    /\ op = "resample.unit" => ret.step = args.step /\ ret.start = args.start

=============================================================================
